---- MODULE Spec2Model ----
(***************************************************************************)
(* Model of awsbot-cli.                                                    *)
(*                                                                         *)
(* ECR image cleanup (src/awsbot_cli/commands/ecr.py, cleanup_images).     *)
(* The repository is a sequence of images in the order list_images returns *)
(* them.  One action runs the whole command: listing, the retention        *)
(* decision, the describe calls, the chunked deletes and the message that  *)
(* is printed.  The ECR service is the environment: every call may raise a *)
(* ClientError and batch_delete_image may answer with per-image failures.  *)
(*                                                                         *)
(* The other commands are modelled the same way, each on its own           *)
(* variables and under its own specification: the AMI cleanup handler      *)
(* (lambda_functions/cleanup_amis.py), append_lifecycle_rule (utils/s3.py),*)
(* the check-health polling loop and find_target_instance                  *)
(* (commands/infra.py), the configuration file (utils/config.py) and       *)
(* `auth login` (commands/auth.py), audit-repos (commands/github.py), the  *)
(* global callback (main.py), the AI pipeline (workflow/pipeline.py), two  *)
(* processes on one configuration file, the `infra refresh` polling loop,  *)
(* get_bucket_size (reports/s3.py) and create-vpn (commands/vpn.py).       *)
(***************************************************************************)
EXTENDS Integers, Sequences, FiniteSets, TLC

VARIABLES
    repo,      \* images stored in the ECR repository, in listing order
    in_use,    \* digests referenced by live consumers (never read by the command)
    history,   \* one record per finished run of cleanup-images, oldest first
    pc,        \* "first": the command is about to run; "again": it has run
               \* and may be run again with the same options; "done"
    ec2,       \* the EC2 account: registered images, instances, snapshots
    ami_runs,  \* one record per finished run of the AMI cleanup handler
    lifecycle, \* the lifecycle configuration of the S3 bucket
    s3_calls,  \* one record per finished call of append_lifecycle_rule
    hc,        \* the check-health command: options, loop variables, position
    config_file, \* content of ~/.awsbot/config.json
    cli_runs,  \* one record per finished configuration or login command
    asgs,      \* the Auto Scaling groups of the account, in listing order
    found,     \* one record per finished call of find_target_instance
    org_repos, \* the public repositories of the organization, in listing order
    audit,     \* the audit-repos command: options, page, requests sent, position
    environ,   \* the variables the global callback has put into os.environ
    main_runs, \* one record per finished run of the global callback
    workspace, \* what git, glab, the template files and Gemini answer to the AI pipeline
    pipeline_runs,\* one record per finished run of run_ai_pipeline
    procs,     \* the CLI processes that change the configuration at the same time
    refresh,   \* the instance refresh as the Auto Scaling service holds it
    poll,      \* the infra refresh command: position, last status read, exit code
    cache,     \* cache_data, the content of .s3_cache.json: bucket name to size and timestamp
    size_runs, \* one record per finished call of get_bucket_size
    endpoints, \* the client CIDR and VPC CIDR of every Client VPN endpoint created
    vpn_runs   \* one record per finished run of create-vpn

ecr_vars == <<repo, in_use, history, pc>>
ami_vars == <<ec2, ami_runs>>
s3_vars == <<lifecycle, s3_calls>>
health_vars == <<hc>>
config_vars == <<config_file, cli_runs>>
asg_vars == <<asgs, found>>
github_vars == <<org_repos, audit>>
main_vars == <<environ, main_runs>>
pipeline_vars == <<workspace, pipeline_runs>>
procs_vars == <<procs>>
refresh_vars == <<refresh, poll>>
cache_vars == <<cache, size_runs>>
vpn_vars == <<endpoints, vpn_runs>>

vars == <<repo, in_use, history, pc, ec2, ami_runs, lifecycle, s3_calls, hc,
          config_file, cli_runs, asgs, found,
          org_repos, audit,
          environ, main_runs,
          workspace, pipeline_runs,
          procs,
          refresh, poll,
          cache, size_runs,
          endpoints, vpn_runs>>

\* a command that is not the subject of a specification stays as it is here
EcrIdle == repo = <<>> /\ in_use = {} /\ history = <<>> /\ pc = "done"
AmiIdle == ec2 = [images |-> <<>>, instances |-> <<>>, snapshots |-> {}] /\ ami_runs = <<>>
S3Idle == lifecycle = [exists |-> FALSE, Rules |-> <<>>] /\ s3_calls = <<>>
HealthIdle == hc = [pc |-> "idle"]
ConfigIdle == config_file = [kind |-> "missing"] /\ cli_runs = <<>>
AsgIdle == asgs = <<>> /\ found = <<>>
GithubIdle == org_repos = <<>> /\ audit = [pc |-> "idle"]
MainIdle == environ = <<>> /\ main_runs = <<>>
PipelineIdle == workspace = [branch |-> <<>>] /\ pipeline_runs = <<>>
ProcsIdle == procs = <<>>
RefreshIdle == refresh = [status |-> "none"] /\ poll = [pc |-> "idle"]
CacheIdle == cache = <<>> /\ size_runs = <<>>
VpnIdle == endpoints = {} /\ vpn_runs = <<>>

----------------------------------------------------------------------------
(* Bounds of the model *)

MaxImages == 3      \* images in a repository of the small specifications
MaxTime == 2        \* distinct imagePushedAt values
MaxKeep == 2        \* largest --keep value tried
MaxBulk == 205      \* images in a repository of SpecBatch
PageSize == 100     \* imageIds in one page of the list_images paginator

(* Program constants *)

chunk_size == 100   \* describe_images batch, ecr.py line 191
batch_size == 100   \* batch_delete_image batch, ecr.py lines 219-220

NoTag == 0          \* an imageId without the "imageTag" key

----------------------------------------------------------------------------
(* Python helpers *)

Min(a, b) == IF a < b THEN a ELSE b
Max(a, b) == IF a > b THEN a ELSE b

\* s[i : j] for 0 <= i, with Python's clamping of j (0-based, j exclusive)
PySlice(s, i, j) == SubSeq(s, i + 1, Min(j, Len(s)))

\* s[k:], where a negative k counts from the end
PySliceFrom(s, k) ==
    IF k >= 0 THEN SubSeq(s, Min(k, Len(s)) + 1, Len(s))
    ELSE SubSeq(s, Max(Len(s) + k, 0) + 1, Len(s))

\* list(range(0, n, step))
PyRange(n, step) == [c \in 1..((n + step - 1) \div step) |-> (c - 1) * step]

\* the chunks  s[i : i + step] for i in range(0, len(s), step)
Chunks(s, step) ==
    LET starts == PyRange(Len(s), step)
    IN  [c \in 1..Len(starts) |-> PySlice(s, starts[c], starts[c] + step)]

RECURSIVE Flatten(_)
Flatten(ss) == IF ss = <<>> THEN <<>> ELSE ss[1] \o Flatten(Tail(ss))

SeqToSet(s) == {s[i] : i \in 1..Len(s)}

----------------------------------------------------------------------------
(* The ECR service as the command sees it *)

\* one entry of list_images: the digest and, for a tagged image, its tag
ImageId(img) == [imageDigest |-> img.imageDigest, imageTag |-> img.imageTag]

\* paginator.paginate(repositoryName=...): the pages of imageIds, at least one
ListImagesPages(r) ==
    IF r = <<>> THEN << <<>> >>
    ELSE Chunks([i \in 1..Len(r) |-> ImageId(r[i])], PageSize)

\* describe_images(imageIds=batch)["imageDetails"], in the order of the request
DescribeImages(r, batch) ==
    [i \in 1..Len(batch) |->
        LET img == CHOOSE x \in SeqToSet(r) : x.imageDigest = batch[i].imageDigest
        IN  [imageDigest |-> img.imageDigest,
             imageTags |-> <<img.imageTag>>,
             imagePushedAt |-> img.imagePushedAt]]

\* what one run meets: which call raises ClientError (its 1-based index among
\* the calls of that kind), and the digests batch_delete_image reports under
\* "failures" instead of deleting
NoFault == [fault |-> "none", at |-> 0, rejected |-> {}]

----------------------------------------------------------------------------
(* cleanup_images, ecr.py lines 154-225 *)

\* line 177
Untagged(all_images) == SelectSeq(all_images, LAMBDA img : img.imageTag = NoTag)

\* a slip in line 178: every listed image counted as tagged
TaggedUnfiltered(all_images) == all_images

\* line 178
Tagged(all_images) == SelectSeq(all_images, LAMBDA img : img.imageTag # NoTag)

\* a slip in line 183: the flag is not tested
UntaggedDeletionsAlways(all_images, delete_untagged) == Untagged(all_images)

\* lines 183-184: to_delete after step 1
UntaggedDeletions(all_images, delete_untagged) ==
    IF delete_untagged /\ Untagged(all_images) # <<>>
    THEN Untagged(all_images) ELSE <<>>

\* lines 192-193: the describe_images batches
DescribeBatches(tagged) == Chunks(tagged, chunk_size)

\* a slip in the sort: x goes before the elements that are as new as x
InsertBeforeEqual(x, sorted) ==
    LET older == {p \in 1..Len(sorted) : sorted[p].imagePushedAt <= x.imagePushedAt}
        pos == IF older = {} THEN Len(sorted) + 1
               ELSE CHOOSE p \in older : \A q \in older : p <= q
    IN  SubSeq(sorted, 1, pos - 1) \o <<x>> \o SubSeq(sorted, pos, Len(sorted))

\* list.sort(key=imagePushedAt, reverse=True) puts x after every element
\* that is at least as new: the sort is stable
InsertNewestFirst(x, sorted) ==
    LET older == {p \in 1..Len(sorted) : sorted[p].imagePushedAt < x.imagePushedAt}
        pos == IF older = {} THEN Len(sorted) + 1
               ELSE CHOOSE p \in older : \A q \in older : p <= q
    IN  SubSeq(sorted, 1, pos - 1) \o <<x>> \o SubSeq(sorted, pos, Len(sorted))

RECURSIVE SortPrefix(_, _)
SortPrefix(details, n) ==
    IF n = 0 THEN <<>>
    ELSE InsertNewestFirst(details[n], SortPrefix(details, n - 1))

\* a slip in line 198: the order reversed, oldest first
SortOldestFirst(details) ==
    [i \in 1..Len(details) |->
        SortPrefix(details, Len(details))[Len(details) + 1 - i]]

\* line 198
SortNewestFirst(details) == SortPrefix(details, Len(details))

\* a slip in line 201: details[keep + 1:]
StaleDeletionsKeepOneMore(details, keep) ==
    LET stale == PySliceFrom(SortNewestFirst(details), keep + 1)
    IN  [i \in 1..Len(stale) |->
            [imageDigest |-> stale[i].imageDigest, imageTag |-> stale[i].imageTags[1]]]

\* lines 201-205: the entries appended to to_delete for the stale images
StaleDeletions(details, keep) ==
    LET stale == PySliceFrom(SortNewestFirst(details), keep)
    IN  [i \in 1..Len(stale) |->
            [imageDigest |-> stale[i].imageDigest, imageTag |-> stale[i].imageTags[1]]]

\* a slip in the order of steps 1 and 2: the stale images are appended first
DecideStaleFirst(r, all_images, keep, delete_untagged) ==
    (IF Len(Tagged(all_images)) > keep
        THEN StaleDeletions(
                Flatten([b \in 1..Len(DescribeBatches(Tagged(all_images))) |->
                    DescribeImages(r, DescribeBatches(Tagged(all_images))[b])]),
                keep)
        ELSE <<>>)
    \o UntaggedDeletions(all_images, delete_untagged)

\* lines 176-205 when no call fails: the deletion list
Decide(r, all_images, keep, delete_untagged) ==
    UntaggedDeletions(all_images, delete_untagged)
    \o (IF Len(Tagged(all_images)) > keep
        THEN StaleDeletions(
                Flatten([b \in 1..Len(DescribeBatches(Tagged(all_images))) |->
                    DescribeImages(r, DescribeBatches(Tagged(all_images))[b])]),
                keep)
        ELSE <<>>)

\* a slip in line 219: range(0, len(to_delete) - 100, 100), the last batch
\* is never sent
DeleteBatchesWithoutLast(to_delete) ==
    LET all == Chunks(to_delete, batch_size)
    IN  SubSeq(all, 1, Len(all) - 1)

\* a slip in line 220: to_delete[i + 1 : i + 100]
DeleteBatchesOffByOne(to_delete) ==
    LET starts == PyRange(Len(to_delete), batch_size)
    IN  [c \in 1..Len(starts) |->
            PySlice(to_delete, starts[c] + 1, starts[c] + batch_size)]

\* lines 219-220: the batch_delete_image batches
DeleteBatches(to_delete) == Chunks(to_delete, batch_size)

Call(op, ids) == [op |-> op, imageIds |-> ids]

\* the list_images calls of lines 167-170, one per page
ListCalls(r) == [p \in 1..Len(ListImagesPages(r)) |-> Call("list_images", <<>>)]

\* the describe_images calls of lines 192-195 up to and including batch n
DescribeCalls(tagged, n) ==
    [b \in 1..Min(n, Len(DescribeBatches(tagged))) |->
        Call("describe_images", DescribeBatches(tagged)[b])]

\* the batch_delete_image calls of lines 219-221 up to and including batch n
DeleteCalls(to_delete, n) ==
    [c \in 1..Min(n, Len(DeleteBatches(to_delete))) |->
        Call("batch_delete_image", DeleteBatches(to_delete)[c])]

\* the images the service removed: those of the batches before the one that
\* raised, without the ones it reported under "failures"
Removed(to_delete, completed, rejected) ==
    SelectSeq(Flatten([c \in 1..Min(completed, Len(DeleteBatches(to_delete))) |->
                          DeleteBatches(to_delete)[c]]),
              LAMBDA id : id.imageDigest \notin rejected)

\* what one run did: its options, the repository it started from, the list
\* it fetched, whether it reached line 207 with a deletion list, the calls it
\* made, the images the service removed, the message it printed and the
\* number N in that message (-1 when the message carries none)
Result(keep, delete_untagged, dry_run, r, decided, to_delete, calls, deleted, out, count) ==
    [keep |-> keep, delete_untagged |-> delete_untagged, dry_run |-> dry_run,
     before |-> r, all_images |-> Flatten(ListImagesPages(r)),
     decided |-> decided, to_delete |-> to_delete,
     calls |-> calls, deleted |-> deleted, out |-> out, count |-> count]

\* a slip in line 212: dry_run is not tested
ExecuteIgnoringDryRun(keep, delete_untagged, dry_run, plan, r, to_delete, fetched) ==
    IF to_delete = <<>>
    THEN Result(keep, delete_untagged, dry_run, r, TRUE, to_delete, fetched, <<>>,
                "No images need deleting", -1)
    ELSE Result(keep, delete_untagged, dry_run, r, TRUE, to_delete,
                fetched \o DeleteCalls(to_delete, Len(to_delete)),
                Removed(to_delete, Len(to_delete), plan.rejected),
                "Deleted", Len(to_delete))

\* a command that deletes before it has listed and described
ExecuteDeletingFirst(keep, delete_untagged, dry_run, plan, r, to_delete, fetched) ==
    IF to_delete = <<>> \/ dry_run
    THEN Result(keep, delete_untagged, dry_run, r, TRUE, to_delete, fetched, <<>>,
                IF dry_run /\ to_delete # <<>> THEN "[DRY RUN] Would delete"
                ELSE "No images need deleting",
                IF dry_run /\ to_delete # <<>> THEN Len(to_delete) ELSE -1)
    ELSE Result(keep, delete_untagged, dry_run, r, TRUE, to_delete,
                DeleteCalls(to_delete, Len(to_delete)) \o fetched,
                Removed(to_delete, Len(to_delete), plan.rejected),
                "Deleted", Len(to_delete))

\* lines 207-222: what is done with the deletion list; `fetched` are the
\* calls made so far
Execute(keep, delete_untagged, dry_run, plan, r, to_delete, fetched) ==
    IF to_delete = <<>>
    THEN \* lines 207-209
         Result(keep, delete_untagged, dry_run, r, TRUE, to_delete, fetched, <<>>,
                "No images need deleting", -1)
    ELSE IF dry_run
    THEN \* lines 212-216
         Result(keep, delete_untagged, dry_run, r, TRUE, to_delete, fetched, <<>>,
                "[DRY RUN] Would delete", Len(to_delete))
    ELSE IF plan.fault = "batch_delete_image"
            /\ plan.at \in 1..Len(DeleteBatches(to_delete))
    THEN \* line 221 raises in batch plan.at, line 225 prints
         Result(keep, delete_untagged, dry_run, r, TRUE, to_delete,
                fetched \o DeleteCalls(to_delete, plan.at),
                Removed(to_delete, plan.at - 1, plan.rejected), "AWS Error", -1)
    ELSE \* lines 219-222
         Result(keep, delete_untagged, dry_run, r, TRUE, to_delete,
                fetched \o DeleteCalls(to_delete, Len(to_delete)),
                Removed(to_delete, Len(to_delete), plan.rejected),
                "Deleted", Len(to_delete))

\* one run of the command on repository r; plan is what the service does
cleanup_images(r, keep, delete_untagged, dry_run, plan) ==
    LET all_images == Flatten(ListImagesPages(r))
        tagged == Tagged(all_images)
        describes == Len(tagged) > keep
    IN  IF plan.fault = "list_images"
        THEN \* line 169 raises, line 225 prints
             Result(keep, delete_untagged, dry_run, r, FALSE, <<>>,
                    <<Call("list_images", <<>>)>>, <<>>, "AWS Error", -1)
        ELSE IF all_images = <<>>
        THEN \* lines 172-174
             Result(keep, delete_untagged, dry_run, r, FALSE, <<>>,
                    ListCalls(r), <<>>, "No images found", -1)
        ELSE IF describes /\ plan.fault = "describe_images"
                /\ plan.at \in 1..Len(DescribeBatches(tagged))
        THEN \* line 194 raises in batch plan.at, line 225 prints
             Result(keep, delete_untagged, dry_run, r, FALSE,
                    UntaggedDeletions(all_images, delete_untagged),
                    ListCalls(r) \o DescribeCalls(tagged, plan.at), <<>>, "AWS Error", -1)
        ELSE Execute(keep, delete_untagged, dry_run, plan, r,
                     Decide(r, all_images, keep, delete_untagged),
                     ListCalls(r)
                     \o (IF describes THEN DescribeCalls(tagged, Len(tagged)) ELSE <<>>))

\* the repository after the service removed the images of `deleted`
AfterDelete(r, deleted) ==
    SelectSeq(r, LAMBDA img : \A i \in 1..Len(deleted) :
                                 deleted[i].imageDigest # img.imageDigest)

----------------------------------------------------------------------------
(* The inputs *)

KeepValues == {-1} \cup (0..MaxKeep)

\* an image of the repository: its digest, its tag (a tag names one image
\* only, so the tag of a tagged image is its digest) and its push time
Image(digest, is_tagged, pushed_at) ==
    [imageDigest |-> digest,
     imageTag |-> IF is_tagged THEN digest ELSE NoTag,
     imagePushedAt |-> pushed_at]

\* repositories of n images with the unique digests 1..n, listed by
\* ascending digest (TRUE) or by descending digest (FALSE) as `orders` allows,
\* with every tagging and every push time
ReposListed(n, orders) ==
    {[i \in 1..n |-> Image(IF asc THEN i ELSE n + 1 - i, tg[i], tm[i])] :
        asc \in orders, tg \in [1..n -> BOOLEAN], tm \in [1..n -> 1..MaxTime]}

Repos(n) == ReposListed(n, BOOLEAN)

\* repositories of n untagged images pushed one after the other
BulkRepo(n) == [i \in 1..n |-> Image(i, FALSE, 1)]

\* what the service may do during one run on a repository of n images
Plans(r) ==
    {NoFault}
    \cup {[fault |-> f, at |-> c, rejected |-> {}] :
            f \in {"list_images", "describe_images", "batch_delete_image"},
            c \in 1..Max(1, Len(PyRange(Len(r), batch_size)))}
    \cup {[fault |-> "none", at |-> 0, rejected |-> {d}] :
            d \in {r[i].imageDigest : i \in {1, Len(r)} \cap (1..Len(r))}}

----------------------------------------------------------------------------
(* The state machine *)

\* one run on a small repository, one image of which may be in use
Init ==
    /\ \E n \in 0..MaxImages : repo \in Repos(n)
    /\ in_use \in SUBSET ({1} \cap {repo[i].imageDigest : i \in 1..Len(repo)})
    /\ history = <<>>
    /\ pc = "first"
    /\ AmiIdle /\ S3Idle /\ HealthIdle /\ ConfigIdle /\ AsgIdle /\ GithubIdle /\ MainIdle /\ PipelineIdle /\ ProcsIdle /\ RefreshIdle /\ CacheIdle /\ VpnIdle

\* a run and its repetition on a small repository, listed by ascending digest,
\* that nobody uses
InitRerun ==
    /\ \E n \in 0..MaxImages : repo \in ReposListed(n, {TRUE})
    /\ in_use = {}
    /\ history = <<>>
    /\ pc = "first"
    /\ AmiIdle /\ S3Idle /\ HealthIdle /\ ConfigIdle /\ AsgIdle /\ GithubIdle /\ MainIdle /\ PipelineIdle /\ ProcsIdle /\ RefreshIdle /\ CacheIdle /\ VpnIdle

\* one run on a repository of up to MaxBulk untagged images
InitBatch ==
    /\ \E n \in 0..MaxBulk : repo = BulkRepo(n)
    /\ in_use = {}
    /\ history = <<>>
    /\ pc = "first"
    /\ AmiIdle /\ S3Idle /\ HealthIdle /\ ConfigIdle /\ AsgIdle /\ GithubIdle /\ MainIdle /\ PipelineIdle /\ ProcsIdle /\ RefreshIdle /\ CacheIdle /\ VpnIdle

\* one run on a repository of about MaxBulk untagged images followed by
\* MaxImages tagged ones: several pages, a describe call, several deletes
InitBulkTagged ==
    /\ \E n \in (MaxBulk - MaxImages)..MaxBulk :
          repo = BulkRepo(n) \o [i \in 1..MaxImages |-> Image(n + i, TRUE, i)]
    /\ in_use = {}
    /\ history = <<>>
    /\ pc = "first"
    /\ AmiIdle /\ S3Idle /\ HealthIdle /\ ConfigIdle /\ AsgIdle /\ GithubIdle /\ MainIdle /\ PipelineIdle /\ ProcsIdle /\ RefreshIdle /\ CacheIdle /\ VpnIdle

\* `awsbot ecr cleanup-images REPO --keep K [--no-delete-untagged] [--dry-run]`
CleanupImages ==
    /\ pc = "first"
    /\ \E keep \in KeepValues, delete_untagged \in BOOLEAN, dry_run \in BOOLEAN,
          plan \in Plans(repo) :
          LET run == cleanup_images(repo, keep, delete_untagged, dry_run, plan)
          IN  /\ history' = Append(history, run)
              /\ repo' = AfterDelete(repo, run.deleted)
    /\ pc' = "again"
    /\ UNCHANGED <<in_use, ami_vars, s3_vars, health_vars, config_vars, asg_vars, github_vars, main_vars, pipeline_vars, procs_vars, refresh_vars, cache_vars, vpn_vars>>

\* the same command line once more, with or without --dry-run, and nothing
\* pushed in between
CleanupImagesAgain ==
    /\ pc = "again"
    /\ \E dry_run \in BOOLEAN, plan \in Plans(repo) :
          LET last == history[Len(history)]
              run == cleanup_images(repo, last.keep, last.delete_untagged, dry_run, plan)
          IN  /\ history' = Append(history, run)
              /\ repo' = AfterDelete(repo, run.deleted)
    /\ pc' = "done"
    /\ UNCHANGED <<in_use, ami_vars, s3_vars, health_vars, config_vars, asg_vars, github_vars, main_vars, pipeline_vars, procs_vars, refresh_vars, cache_vars, vpn_vars>>

Next == CleanupImages

NextRerun == CleanupImages \/ CleanupImagesAgain

Spec == Init /\ [][Next]_vars

SpecRerun == InitRerun /\ [][NextRerun]_vars

SpecBulkTagged == InitBulkTagged /\ [][Next]_vars

SpecBatch == InitBatch /\ [][Next]_vars

----------------------------------------------------------------------------
(* Vocabulary of the properties *)

Runs == 1..Len(history)

DigestsOf(ids) == {ids[i].imageDigest : i \in 1..Len(ids)}

\* positions of the tagged and of the untagged images in the repository a run
\* started from
TaggedAt(run) == {i \in 1..Len(run.before) : run.before[i].imageTag # NoTag}
UntaggedAt(run) == {i \in 1..Len(run.before) : run.before[i].imageTag = NoTag}

InToDelete(run, i) == run.before[i].imageDigest \in DigestsOf(run.to_delete)

\* retained: every listed image that is not in to_delete
Retained(run) ==
    SelectSeq(run.all_images, LAMBDA id : id.imageDigest \notin DigestsOf(run.to_delete))

\* number of tagged images that come before the one at position i when the
\* tagged images are put newest first and equally new ones stay in listing order
Rank(run, i) ==
    Cardinality({j \in TaggedAt(run) :
        \/ run.before[j].imagePushedAt > run.before[i].imagePushedAt
        \/ /\ run.before[j].imagePushedAt = run.before[i].imagePushedAt
           /\ j < i})

\* first 0-based index of details[keep:]
SliceStart(run) ==
    IF run.keep >= 0 THEN run.keep
    ELSE Max(Cardinality(TaggedAt(run)) + run.keep, 0)

\* the tag and age rules of the command select the image at position i
Selected(run, i) ==
    \/ i \in UntaggedAt(run) /\ run.delete_untagged
    \/ i \in TaggedAt(run) /\ Rank(run, i) >= SliceStart(run)

DeleteCallsOf(run) == SelectSeq(run.calls, LAMBDA c : c.op = "batch_delete_image")

----------------------------------------------------------------------------
(* C1 *)

----------------------------------------------------------------------------
(* C2 *)

\* of the tagged images at the positions `among`, exactly min(keep, number
\* of them) are retained, no deleted one is newer than a retained one, and
\* with keep = 0 all of them are in to_delete
KeepWindow(run, among) ==
    LET kept == {i \in among : ~InToDelete(run, i)}
    IN  /\ Cardinality(kept) = Min(run.keep, Cardinality(among))
        /\ \A i \in kept, j \in among \ kept :
              run.before[i].imagePushedAt >= run.before[j].imagePushedAt
        /\ run.keep = 0 => kept = {}

----------------------------------------------------------------------------
(* C3 *)

\* C3: to_delete and retained partition the listed images: to_delete names
\* listed images only and none twice, no image is in both, and the two
\* lengths add up to the number of listed images.
C3_Partition ==
    \A k \in Runs : history[k].decided =>
        LET run == history[k]
        IN  /\ \A i, j \in 1..Len(run.to_delete) :
                  i # j => run.to_delete[i].imageDigest # run.to_delete[j].imageDigest
            /\ \A i \in 1..Len(run.to_delete) :
                  \E j \in 1..Len(run.all_images) : run.all_images[j] = run.to_delete[i]
            /\ DigestsOf(run.to_delete) \cap DigestsOf(Retained(run)) = {}
            /\ DigestsOf(run.to_delete) \cup DigestsOf(Retained(run))
                  = DigestsOf(run.all_images)
            /\ Len(run.to_delete) + Len(Retained(run)) = Len(run.all_images)

\* a decision that deletes untagged and stale tagged images and retains others
C3_Witness ==
    \E k \in Runs :
        /\ history[k].decided
        /\ \E i \in UntaggedAt(history[k]) : InToDelete(history[k], i)
        /\ \E i \in TaggedAt(history[k]) : InToDelete(history[k], i)
        /\ Retained(history[k]) # <<>>

----------------------------------------------------------------------------
(* C4 *)

\* C4 as claimed: a run with a negative keep is rejected (InvalidArgument)
\* before any deletion: it issues no batch_delete_image call and removes no
\* image.  Stated for runs with delete_untagged off, where every deletion is
\* the keep rule's.
C4_NegativeKeepDeletesNothing ==
    \A k \in Runs : history[k].keep < 0 /\ ~history[k].delete_untagged =>
        /\ history[k].out = "InvalidArgument"
        /\ DeleteCallsOf(history[k]) = <<>>
        /\ history[k].deleted = <<>>

----------------------------------------------------------------------------
(* C5 *)

\* C5: the untagged images that are not in use are all in to_delete when
\* delete_untagged is set and none of them is when it is not, whatever keep
\* and the tagged images are.
C5_UntaggedFollowFlag ==
    \A k \in Runs : history[k].decided =>
        \A i \in UntaggedAt(history[k]) :
            history[k].before[i].imageDigest \notin in_use =>
                (InToDelete(history[k], i) <=> history[k].delete_untagged)

\* untagged images retained with the flag off while a stale tagged one goes
C5_Witness ==
    \E k \in Runs :
        /\ history[k].decided
        /\ ~history[k].delete_untagged
        /\ \E i \in UntaggedAt(history[k]) :
              /\ history[k].before[i].imageDigest \notin in_use
              /\ ~InToDelete(history[k], i)
        /\ \E i \in TaggedAt(history[k]) : InToDelete(history[k], i)

----------------------------------------------------------------------------
(* C6 *)

\* the imageIds of the batch_delete_image calls of a run, in call order
Submitted(run) ==
    Flatten([c \in 1..Len(DeleteCallsOf(run)) |-> DeleteCallsOf(run)[c].imageIds])

\* the repository as run k left it
RepoAfter(k) == IF k = Len(history) THEN repo ELSE history[k + 1].before

\* C6: a dry run issues no batch_delete_image call and leaves the repository
\* as it found it, and when its deletion list is not empty it reports the
\* number of images in it.
C6_DryRunDeletesNothing ==
    \A k \in Runs : history[k].dry_run =>
        /\ DeleteCallsOf(history[k]) = <<>>
        /\ RepoAfter(k) = history[k].before
        /\ history[k].decided /\ history[k].to_delete # <<>> =>
              /\ history[k].out = "[DRY RUN] Would delete"
              /\ history[k].count = Len(history[k].to_delete)

\* a dry run whose deletion list holds untagged and stale tagged images
C6_Witness ==
    \E k \in Runs :
        /\ history[k].dry_run
        /\ history[k].out = "[DRY RUN] Would delete"
        /\ \E i \in UntaggedAt(history[k]) : InToDelete(history[k], i)
        /\ \E i \in TaggedAt(history[k]) : InToDelete(history[k], i)
        /\ repo = history[k].before

----------------------------------------------------------------------------
(* C7 *)

IsPrefix(s, t) == Len(s) <= Len(t) /\ s = SubSeq(t, 1, Len(s))

----------------------------------------------------------------------------
(* C8 *)

\* position in the repository of the image with digest d
PositionOf(run, d) == CHOOSE i \in 1..Len(run.before) : run.before[i].imageDigest = d

----------------------------------------------------------------------------
(* C9 *)

\* C9: a live run that no call interrupts submits to_delete in consecutive
\* batches of 1 to batch_size images: the batches in call order make up
\* to_delete, and there are ceil(len(to_delete) / batch_size) of them.
C9_BatchesCoverToDelete ==
    \A k \in Runs : history[k].out = "Deleted" =>
        LET run == history[k]
            calls == DeleteCallsOf(run)
        IN  /\ \A c \in 1..Len(calls) : Len(calls[c].imageIds) \in 1..batch_size
            /\ Submitted(run) = run.to_delete
            /\ Len(calls) * batch_size >= Len(run.to_delete)
            /\ (Len(calls) - 1) * batch_size < Len(run.to_delete)

\* 205 images deleted in batches of 100, 100 and 5
C9_Witness ==
    \E k \in Runs :
        /\ history[k].out = "Deleted"
        /\ Len(history[k].to_delete) = 2 * batch_size + 5
        /\ Len(DeleteCallsOf(history[k])) = 3
        /\ Len(DeleteCallsOf(history[k])[1].imageIds) = batch_size
        /\ Len(DeleteCallsOf(history[k])[2].imageIds) = batch_size
        /\ Len(DeleteCallsOf(history[k])[3].imageIds) = 5

----------------------------------------------------------------------------
(* C10 *)

\* C10 as claimed: "Deleted N images" is printed only if all N images of
\* to_delete were deleted, a failed delete being reported instead (stated
\* for the runs with a valid keep).
C10_DeletedMeansAllDeleted ==
    \A k \in Runs : history[k].out = "Deleted" /\ history[k].keep >= 0 =>
        /\ history[k].deleted = history[k].to_delete
        /\ DigestsOf(history[k].to_delete) \cap DigestsOf(RepoAfter(k)) = {}

----------------------------------------------------------------------------
(* C23 *)

OpsOf(run) == [i \in 1..Len(run.calls) |-> run.calls[i].op]

\* C23: in every run all list_images pages and all describe_images batches
\* are fetched before the first batch_delete_image call: a run that deletes
\* has fetched every page, has described every batch of tagged images it
\* needed, holds its complete deletion list, and calls nothing but
\* batch_delete_image from its first delete call on.
C23_FetchBeforeDelete ==
    \A k \in Runs :
        LET run == history[k]
            ops == OpsOf(run)
            deletes == {i \in 1..Len(ops) : ops[i] = "batch_delete_image"}
            tagged == Tagged(run.all_images)
            lists == {i \in 1..Len(ops) : ops[i] = "list_images"}
            describes == {i \in 1..Len(ops) : ops[i] = "describe_images"}
        IN  deletes # {} =>
                /\ \A i \in lists \cup describes : \A d \in deletes : i < d
                /\ Cardinality(lists) = Len(ListImagesPages(run.before))
                /\ Cardinality(describes) =
                      IF Len(tagged) > run.keep THEN Len(DescribeBatches(tagged)) ELSE 0
                /\ run.decided
                /\ \A c \in 1..Len(DeleteCallsOf(run)) :
                      DeleteCallsOf(run)[c].imageIds = DeleteBatches(run.to_delete)[c]

\* a run of three pages, a describe call and three delete calls
C23_Witness ==
    \E k \in Runs :
        /\ Len(ListImagesPages(history[k].before)) = 3
        /\ Len(DeleteCallsOf(history[k])) = 3
        /\ Len(SelectSeq(history[k].calls, LAMBDA c : c.op = "describe_images")) = 1
        /\ history[k].calls[Len(history[k].calls)].op = "batch_delete_image"

(* C11 *)

\* a live run that reached its delete calls and left part of to_delete in
\* the repository, followed by the same command again
RetriedAfterPartialFailure ==
    /\ Len(history) = 2
    /\ ~history[1].dry_run
    /\ history[1].decided
    /\ history[1].deleted # history[1].to_delete
    /\ history[2].decided

\* the second run selects exactly what the first selected and did not delete
RetrySelectsTheRest ==
    DigestsOf(history[2].to_delete)
        = DigestsOf(history[1].to_delete) \ DigestsOf(history[1].deleted)

\* C11 as claimed: after a live run that deleted only part of its list, the
\* same command run again (same keep, same delete_untagged, nothing pushed)
\* selects exactly the images of the first decision that are still there: it
\* deletes nothing the first decision retained and skips nothing it selected.
C11_RetryCompletesTheDecision ==
    RetriedAfterPartialFailure => RetrySelectsTheRest

\* C11 for the keep values the option is meant for (keep >= 0)
C11_RetryCompletesTheDecisionValidKeep ==
    RetriedAfterPartialFailure /\ history[1].keep >= 0 => RetrySelectsTheRest

----------------------------------------------------------------------------
(* C28 *)

\* a live run with delete_untagged on that ended without an error message,
\* followed by the same command again
RerunAfterCleanRun ==
    /\ Len(history) = 2
    /\ ~history[1].dry_run
    /\ history[1].delete_untagged
    /\ history[1].out # "AWS Error"

SecondRunFindsNothing ==
    /\ history[2].to_delete = <<>>
    /\ DeleteCallsOf(history[2]) = <<>>

\* C28: after a live run with delete_untagged on that completed without
\* error, the same command run again (same keep, nothing pushed) finds nothing
\* to delete and issues no batch_delete_image call.
C28_SecondRunFindsNothingToDelete == RerunAfterCleanRun => SecondRunFindsNothing

\* what the code does give: the same for keep >= 0 when the service removed
\* every image the first run submitted
C28_SecondRunFindsNothingValidKeep ==
    (RerunAfterCleanRun /\ history[1].keep >= 0
        /\ history[1].deleted = history[1].to_delete)
        => SecondRunFindsNothing

----------------------------------------------------------------------------
(* C12 *)

PushedAt(run, d) == run.before[PositionOf(run, d)].imagePushedAt

\* C12: in to_delete the untagged images come first, in the order in which
\* they were listed, and the stale tagged images follow, newest first; no
\* tagged image precedes an untagged one.
C12_UntaggedThenStaleNewestFirst ==
    \A k \in Runs : history[k].decided =>
        LET td == history[k].to_delete
        IN  \A a, b \in 1..Len(td) : a < b =>
                /\ ~(td[a].imageTag # NoTag /\ td[b].imageTag = NoTag)
                /\ td[a].imageTag = NoTag /\ td[b].imageTag = NoTag =>
                      PositionOf(history[k], td[a].imageDigest)
                          < PositionOf(history[k], td[b].imageDigest)
                /\ td[a].imageTag # NoTag /\ td[b].imageTag # NoTag =>
                      PushedAt(history[k], td[a].imageDigest)
                          >= PushedAt(history[k], td[b].imageDigest)

\* an untagged image listed after two tagged ones leads to_delete, and the
\* two stale tagged images, listed oldest first, follow newest first
C12_Witness ==
    \E k \in Runs :
        /\ history[k].decided
        /\ Len(history[k].to_delete) = 3
        /\ history[k].to_delete[1].imageTag = NoTag
        /\ PositionOf(history[k], history[k].to_delete[1].imageDigest) = 3
        /\ PositionOf(history[k], history[k].to_delete[2].imageDigest) = 2
        /\ PushedAt(history[k], history[k].to_delete[2].imageDigest)
              > PushedAt(history[k], history[k].to_delete[3].imageDigest)

----------------------------------------------------------------------------
(* The AMI cleanup handler (lambda_functions/cleanup_amis.py)               *)
(*                                                                          *)
(* An image is [ImageId, Tags = <<Name, Environment>>, BlockDeviceMappings],*)
(* a block device mapping is the snapshot id under its "Ebs" key, or NoEbs. *)
(* An instance is [InstanceId, ImageId].  Rows of the two result tables     *)
(* keep the identifiers and the status; names and dates are left out.       *)

MaxAmis == 2        \* registered images
MaxInstances == 2   \* instances returned by describe_instances

NoEbs == 0          \* a block device mapping without the "Ebs" key

TARGET_TAG == "app" \* the TARGET_TAG variable of the function's environment
Envs == {"dev", "prod"}
AmiTags == {<<"app", "dev">>, <<"app", "prod">>}

\* the block device mappings an image may have: none, one snapshot, an
\* ephemeral device and a snapshot, two snapshots
DeviceLists == {<<>>, <<1>>, <<2>>, <<NoEbs, 1>>, <<1, 2>>}

Images(n) ==
    {[i \in 1..n |-> [ImageId |-> i, Tags |-> t[i], BlockDeviceMappings |-> d[i]]] :
        t \in [1..n -> AmiTags], d \in [1..n -> DeviceLists]}

Instances(m) ==
    {[i \in 1..m |-> [InstanceId |-> i, ImageId |-> a[i]]] : a \in [1..m -> 1..MaxAmis]}

SnapshotsOf(images) ==
    UNION {SeqToSet(images[i].BlockDeviceMappings) : i \in 1..Len(images)} \ {NoEbs}


\* lines 19-22: the event's "dry_run" if it holds one, else the DRY_RUN variable
IsDryRun(event_dry_run, env_DRY_RUN) ==
    IF event_dry_run.present THEN event_dry_run.value ELSE env_DRY_RUN = "true"

\* lines 28-46 and 73: the ids of the instances that run ami_id, as listed
connected_instances(instances, ami_id) ==
    LET Runs_ami(inst) == inst.ImageId = ami_id
        hits == SelectSeq(instances, Runs_ami)
    IN  [k \in 1..Len(hits) |-> hits[k].InstanceId]

\* lines 49-56: the images describe_images returns under the two tag filters
TargetImages(images, target_tag, target_env) ==
    LET Matches(ami) == ami.Tags = <<target_tag, target_env>>
    IN  SelectSeq(images, Matches)

Ec2Call(op, id) == [op |-> op, id |-> id]
CleanupRow(ami_id, status) == [AMI_ID |-> ami_id, Status |-> status]
InUseRow(ami_id, instance_id) == [AMI_ID |-> ami_id, Instance_ID |-> instance_id]

\* EC2 refuses to delete a snapshot that does not exist or that a registered
\* image still maps; any call may also fail for reasons of its own
DeleteSnapshotRaises(st, snap_id, plan) ==
    \/ snap_id \in plan.snapshot_fails
    \/ snap_id \notin st.snapshots
    \/ snap_id \in SnapshotsOf(st.images)

RECURSIVE DeleteSnapshots(_, _, _, _)
\* lines 88-91, from device k on; a ClientError ends the loop (line 93)
DeleteSnapshots(st, devices, k, plan) ==
    IF k > Len(devices) THEN st
    ELSE IF devices[k] = NoEbs THEN DeleteSnapshots(st, devices, k + 1, plan)
    ELSE LET snap_id == devices[k]
             called == [st EXCEPT !.calls = Append(@, Ec2Call("delete_snapshot", snap_id))]
         IN  IF DeleteSnapshotRaises(st, snap_id, plan)
             THEN [called EXCEPT !.raised = TRUE]
             ELSE DeleteSnapshots([called EXCEPT !.snapshots = @ \ {snap_id}],
                                  devices, k + 1, plan)

\* lines 82-95: deregister the image, then delete its snapshots
Deregister(st, ami, plan) ==
    LET called == [st EXCEPT !.calls = Append(@, Ec2Call("deregister_image", ami.ImageId))]
        Other(a) == a.ImageId # ami.ImageId
        gone == [called EXCEPT !.images = SelectSeq(@, Other),
                               !.deregistered_count = @ + 1]
        done == DeleteSnapshots(gone, ami.BlockDeviceMappings, 1, plan)
    IN  IF ami.ImageId \in plan.deregister_fails
        THEN [called EXCEPT !.cleanup = Append(@, CleanupRow(ami.ImageId, "Error"))]
        ELSE [done EXCEPT
                !.cleanup = Append(@, CleanupRow(ami.ImageId,
                                IF done.raised THEN "Error" ELSE "Deregistered")),
                !.raised = FALSE]

\* a handler that forgets the mode it runs in
ProcessAmiAlwaysLive(st, ami, is_dry_run, plan) ==
    LET connected == connected_instances(st.instances, ami.ImageId)
    IN  IF connected = <<>>
        THEN Deregister(st, ami, plan)
        ELSE [st EXCEPT !.in_use =
                @ \o [k \in 1..Len(connected) |-> InUseRow(ami.ImageId, connected[k])]]

\* lines 64-119: one image of the listing
ProcessAmi(st, ami, is_dry_run, plan) ==
    LET connected == connected_instances(st.instances, ami.ImageId)
    IN  IF connected = <<>>
        THEN IF is_dry_run
             THEN [st EXCEPT
                     !.cleanup = Append(@, CleanupRow(ami.ImageId, "Would Deregister")),
                     !.deregistered_count = @ + 1]
             ELSE Deregister(st, ami, plan)
        ELSE [st EXCEPT !.in_use =
                @ \o [k \in 1..Len(connected) |-> InUseRow(ami.ImageId, connected[k])]]

RECURSIVE ProcessAmis(_, _, _, _, _)
\* lines 63-119: the images of the listing, from the k-th on
ProcessAmis(st, targets, k, is_dry_run, plan) ==
    IF k > Len(targets) THEN st
    ELSE ProcessAmis(ProcessAmi(st, targets[k], is_dry_run, plan),
                     targets, k + 1, is_dry_run, plan)

\* lines 11-125: the handler on the account e; the run record holds the
\* response and what the run did to the account
handler(e, environment, event_dry_run, env_DRY_RUN, plan) ==
    LET is_dry_run == IsDryRun(event_dry_run, env_DRY_RUN)
        start == [images |-> e.images, instances |-> e.instances,
                  snapshots |-> e.snapshots, calls |-> <<>>, cleanup |-> <<>>,
                  in_use |-> <<>>, deregistered_count |-> 0, raised |-> FALSE]
        targets == TargetImages(e.images, TARGET_TAG, environment)
        end == ProcessAmis(start, targets, 1, is_dry_run, plan)
    IN  [environment |-> environment, is_dry_run |-> is_dry_run,
         mode_str |-> IF is_dry_run THEN "DRY RUN" ELSE "LIVE DELETE",
         before |-> e, targets |-> targets, plan |-> plan,
         after |-> [images |-> end.images, instances |-> end.instances,
                    snapshots |-> end.snapshots],
         calls |-> end.calls, cleanup |-> end.cleanup, in_use |-> end.in_use,
         deregistered_count |-> end.deregistered_count, statusCode |-> 200]

\* the calls of a run that may fail: none in a dry run, else at most one
\* image whose deregister_image fails and one snapshot whose delete_snapshot
\* fails
AmiPlans(e, event_dry_run, env_DRY_RUN) ==
    IF IsDryRun(event_dry_run, env_DRY_RUN)
    THEN {[deregister_fails |-> {}, snapshot_fails |-> {}]}
    ELSE [deregister_fails : {{}} \cup {{e.images[i].ImageId} : i \in 1..Len(e.images)},
          snapshot_fails : {{}} \cup {{snap_id} : snap_id \in e.snapshots}]

\* the event's "dry_run" key, if present, and the DRY_RUN variable
DryRunInputs ==
    {<<[present |-> TRUE, value |-> TRUE], "true">>,
     <<[present |-> TRUE, value |-> FALSE], "true">>,
     <<[present |-> FALSE, value |-> FALSE], "true">>,
     <<[present |-> FALSE, value |-> FALSE], "false">>}

InitAmi ==
    /\ \E n \in 0..MaxAmis, m \in 0..MaxInstances :
          \E images \in Images(n), instances \in Instances(m) :
              ec2 = [images |-> images, instances |-> instances,
                     snapshots |-> SnapshotsOf(images)]
    /\ ami_runs = <<>>
    /\ EcrIdle /\ S3Idle /\ HealthIdle /\ ConfigIdle /\ AsgIdle /\ GithubIdle /\ MainIdle /\ PipelineIdle /\ ProcsIdle /\ RefreshIdle /\ CacheIdle /\ VpnIdle

\* one invocation of the Lambda function (or of `awsbot infra clean-amis`)
Handler ==
    /\ ami_runs = <<>>
    /\ \E environment \in Envs, d \in DryRunInputs :
          \E plan \in AmiPlans(ec2, d[1], d[2]) :
              LET run == handler(ec2, environment, d[1], d[2], plan)
              IN  /\ ami_runs' = Append(ami_runs, run)
                  /\ ec2' = run.after
    /\ UNCHANGED <<ecr_vars, s3_vars, health_vars, config_vars, asg_vars, github_vars, main_vars, pipeline_vars, procs_vars, refresh_vars, cache_vars, vpn_vars>>

NextAmi == Handler

SpecAmi == InitAmi /\ [][NextAmi]_vars

(* C13 *)

AmiRuns == 1..Len(ami_runs)
CallsOf(run, op) == {run.calls[i].id : i \in {j \in 1..Len(run.calls) : run.calls[j].op = op}}
\* the target images of a run that some instance runs
InUseTargets(run) ==
    {i \in 1..Len(run.targets) :
        connected_instances(run.before.instances, run.targets[i].ImageId) # <<>>}

\* C13: an image that matches the target tags and is the ImageId of at least
\* one instance is never passed to deregister_image and none of its snapshots
\* is passed to delete_snapshot; it has no cleanup row and one in_use row per
\* instance that runs it.
C13_InUseAmiUntouched ==
    \A r \in AmiRuns : \A i \in InUseTargets(ami_runs[r]) :
        LET run == ami_runs[r]
            ami == run.targets[i]
        IN  /\ ami.ImageId \notin CallsOf(run, "deregister_image")
            /\ SeqToSet(ami.BlockDeviceMappings) \cap CallsOf(run, "delete_snapshot") = {}
            /\ \A k \in 1..Len(run.cleanup) : run.cleanup[k].AMI_ID # ami.ImageId
            /\ Cardinality({k \in 1..Len(run.in_use) : run.in_use[k].AMI_ID = ami.ImageId})
                  = Len(connected_instances(run.before.instances, ami.ImageId))

\* the part of C13 that is about the image itself and about the rows
C13_InUseAmiKeptAndReported ==
    \A r \in AmiRuns : \A i \in InUseTargets(ami_runs[r]) :
        LET run == ami_runs[r]
            ami == run.targets[i]
            connected == connected_instances(run.before.instances, ami.ImageId)
        IN  /\ ami.ImageId \notin CallsOf(run, "deregister_image")
            /\ ami \in SeqToSet(run.after.images)
            /\ SeqToSet(ami.BlockDeviceMappings) \ {NoEbs} \subseteq run.after.snapshots
            /\ \A k \in 1..Len(run.cleanup) : run.cleanup[k].AMI_ID # ami.ImageId
            /\ SelectSeq(run.in_use, LAMBDA row : row.AMI_ID = ami.ImageId)
                  = [k \in 1..Len(connected) |-> InUseRow(ami.ImageId, connected[k])]


(* C14 *)

\* the target images of a run that no instance runs, in listing order
UnusedTargets(run) ==
    LET Unused(ami) == connected_instances(run.before.instances, ami.ImageId) = <<>>
    IN  SelectSeq(run.targets, Unused)

\* C14: a dry run issues no deregister_image and no delete_snapshot call,
\* reports every unused target image as 'Would Deregister', and leaves the
\* registered images and the snapshots as they were.
C14_DryRunChangesNothing ==
    \A r \in AmiRuns :
        LET run == ami_runs[r]
            unused == UnusedTargets(run)
        IN  run.is_dry_run =>
                /\ run.calls = <<>>
                /\ run.cleanup = [k \in 1..Len(unused) |->
                                    CleanupRow(unused[k].ImageId, "Would Deregister")]
                /\ run.after = run.before
                /\ ec2 = run.before

\* a dry run over two unused target
\* images that map snapshots
C14_Witness ==
    \E r \in AmiRuns :
        /\ ami_runs[r].is_dry_run
        /\ Len(UnusedTargets(ami_runs[r])) = 2
        /\ Len(ami_runs[r].cleanup) = 2
        /\ ami_runs[r].before.snapshots # {}
        /\ ec2.snapshots # {}


(* C27 *)

\* the target images a live run took out of the account: deregister_image
\* succeeded for them
DeregisteredBy(run) ==
    {run.targets[k].ImageId : k \in 1..Len(run.targets)}
    \ {run.after.images[k].ImageId : k \in 1..Len(run.after.images)}

RowsWithStatus(run, status) == {k \in 1..Len(run.cleanup) : run.cleanup[k].Status = status}

\* C27: in live mode a cleanup row has status 'Deregistered' if and only if
\* deregister_image succeeded for its AMI, and the count of the response body
\* is the number of rows with status 'Deregistered'.
C27_DeregisteredRowsAreDeregisteredAmis ==
    \A r \in AmiRuns :
        LET run == ami_runs[r]
        IN  ~run.is_dry_run =>
                /\ \A k \in 1..Len(run.cleanup) :
                      run.cleanup[k].Status = "Deregistered"
                          <=> run.cleanup[k].AMI_ID \in DeregisteredBy(run)
                /\ run.deregistered_count
                      = Cardinality(RowsWithStatus(run, "Deregistered"))

\* what the code does give: a row with status 'Deregistered' is an AMI that
\* was deregistered, and the count is the number of deregistered AMIs
C27_CountIsDeregisteredAmis ==
    \A r \in AmiRuns :
        LET run == ami_runs[r]
        IN  ~run.is_dry_run =>
                /\ \A k \in RowsWithStatus(run, "Deregistered") :
                      run.cleanup[k].AMI_ID \in DeregisteredBy(run)
                /\ run.deregistered_count = Cardinality(DeregisteredBy(run))


----------------------------------------------------------------------------
(* append_lifecycle_rule (utils/s3.py)                                      *)
(*                                                                          *)
(* The bucket either has no lifecycle configuration or holds a list of      *)
(* rules with distinct IDs.  A rule is [ID, Days]: the ID the function      *)
(* compares and one field that tells two rules of the same ID apart.        *)

MaxRules == 2       \* rules in the bucket's configuration at the start
MaxApplies == 2     \* calls of append_lifecycle_rule in a behaviour

RuleIds == {"Auto-IntelligentTiering-Rule", "Auto-Expiration-30Days", "Rule1"}
RuleDays == {30, 90}
LifecycleRules == [ID : RuleIds, Days : RuleDays]

RuleLists(n) ==
    {rules \in [1..n -> LifecycleRules] :
        \A i, j \in 1..n : i # j => rules[i].ID # rules[j].ID}

\* what may go wrong in a call: nothing, or a ClientError that is not
\* NoSuchLifecycleConfiguration raised by the get or by the put
S3Faults == {"none", "get", "put"}

\* lines 8-21: the rules fetched, <<>> for a bucket without configuration
FetchedRules(lc) == IF lc.exists THEN lc.Rules ELSE <<>>

\* a function that appends without looking at the IDs
AlreadyExistsNever(rules, new_rule) == FALSE

\* lines 25-28: a rule of the same ID is already there
AlreadyExists(rules, new_rule) ==
    \E i \in 1..Len(rules) : rules[i].ID = new_rule.ID

S3Result(lc, new_rule, fault, returned, calls, after) ==
    [bucket_before |-> lc, new_rule |-> new_rule, fault |-> fault,
     returned |-> returned, calls |-> calls, bucket_after |-> after]

\* lines 4-40
append_lifecycle_rule(lc, new_rule, fault) ==
    LET rules == FetchedRules(lc)
    IN  IF fault = "get"
        THEN S3Result(lc, new_rule, fault, FALSE, <<"get">>, lc)
        ELSE IF AlreadyExists(rules, new_rule)
        THEN S3Result(lc, new_rule, fault, TRUE, <<"get">>, lc)
        ELSE IF fault = "put"
        THEN S3Result(lc, new_rule, fault, FALSE, <<"get", "put">>, lc)
        ELSE S3Result(lc, new_rule, fault, TRUE, <<"get", "put">>,
                      [exists |-> TRUE, Rules |-> Append(rules, new_rule)])

InitS3 ==
    /\ \/ lifecycle = [exists |-> FALSE, Rules |-> <<>>]
       \/ \E n \in 1..MaxRules : \E rules \in RuleLists(n) :
             lifecycle = [exists |-> TRUE, Rules |-> rules]
    /\ s3_calls = <<>>
    /\ EcrIdle /\ AmiIdle /\ HealthIdle /\ ConfigIdle /\ AsgIdle /\ GithubIdle /\ MainIdle /\ PipelineIdle /\ ProcsIdle /\ RefreshIdle /\ CacheIdle /\ VpnIdle

\* one call of append_lifecycle_rule on the bucket
AppendLifecycleRule ==
    /\ Len(s3_calls) < MaxApplies
    /\ \E new_rule \in LifecycleRules, fault \in S3Faults :
          LET res == append_lifecycle_rule(lifecycle, new_rule, fault)
          IN  /\ s3_calls' = Append(s3_calls, res)
              /\ lifecycle' = res.bucket_after
    /\ UNCHANGED <<ecr_vars, ami_vars, health_vars, config_vars, asg_vars, github_vars, main_vars, pipeline_vars, procs_vars, refresh_vars, cache_vars, vpn_vars>>

NextS3 == AppendLifecycleRule

SpecS3 == InitS3 /\ [][NextS3]_vars

(* C15 *)

S3Applies == 1..Len(s3_calls)

\* C15: whenever append_lifecycle_rule returns True, the bucket's rules are
\* the previous rules, in order, followed by the new rule if no previous rule
\* had its ID, and the previous rules as they were otherwise; with the ID
\* already there no put call is made; applying the same rule a second time
\* leaves what the first application left.
C15_AppendOnceById ==
    /\ \A k \in S3Applies :
          LET c == s3_calls[k]
              before == FetchedRules(c.bucket_before)
              had == \E i \in 1..Len(before) : before[i].ID = c.new_rule.ID
          IN  /\ c.returned /\ ~had =>
                    c.bucket_after = [exists |-> TRUE, Rules |-> before \o <<c.new_rule>>]
              /\ c.returned /\ had => c.bucket_after = c.bucket_before
              /\ had => c.calls = <<"get">>
    /\ \A k \in S3Applies :
          (/\ k + 1 \in S3Applies
           /\ s3_calls[k].returned
           /\ s3_calls[k + 1].returned
           /\ s3_calls[k + 1].new_rule = s3_calls[k].new_rule)
          => s3_calls[k + 1].bucket_after = s3_calls[k].bucket_after

\* a rule appended behind an existing one, then applied again and skipped
C15_Witness ==
    /\ Len(s3_calls) = 2
    /\ s3_calls[1].returned /\ s3_calls[2].returned
    /\ Len(s3_calls[1].bucket_before.Rules) = 1
    /\ Len(s3_calls[1].bucket_after.Rules) = 2
    /\ s3_calls[2].new_rule = s3_calls[1].new_rule
    /\ s3_calls[2].calls = <<"get">>
    /\ lifecycle = s3_calls[1].bucket_after


----------------------------------------------------------------------------
(* The polling loop of `awsbot infra check-health` (commands/infra.py)      *)
(*                                                                          *)
(* hc holds the options, the loop variables and the position in the loop:   *)
(* "loop" at the top of `while True`, "request" before requests.get,        *)
(* "sleep" before time.sleep, "exit" once typer.Exit has been raised.  Of   *)
(* the URL only its last character matters.  The service and the clock are  *)
(* the environment: each request gets any answer, and in monitor mode the   *)
(* duration may have passed at any check.                                   *)

MaxRetries == 3     \* largest --max-retries tried; also caps count in monitor mode

RequestFailed == 0  \* requests.get raised a RequestException
NoExit == 2         \* no typer.Exit raised yet (the exit codes are 0 and 1)
Responses == {200, 301, 308, 500, RequestFailed}

InitHealth ==
    /\ \E monitor \in BOOLEAN, has_duration \in BOOLEAN,
          max_retries \in -1..MaxRetries, ends_with_slash \in BOOLEAN :
          hc = [monitor |-> monitor, has_duration |-> has_duration,
                max_retries |-> max_retries, ends_with_slash |-> ends_with_slash,
                count |-> 1, status |-> RequestFailed, requested |-> FALSE,
                pc |-> "loop", exit_code |-> NoExit]
    /\ EcrIdle /\ AmiIdle /\ S3Idle /\ ConfigIdle /\ AsgIdle /\ GithubIdle /\ MainIdle /\ PipelineIdle /\ ProcsIdle /\ RefreshIdle /\ CacheIdle /\ VpnIdle

Exit(code) == [hc EXCEPT !.pc = "exit", !.exit_code = code]

\* lines 336-349: the two limits at the top of the loop
CheckLimits ==
    /\ hc.pc = "loop"
    /\ \E elapsed_over \in BOOLEAN :
          hc' = IF hc.monitor /\ hc.has_duration /\ elapsed_over
                THEN Exit(0)
                ELSE IF ~hc.monitor /\ hc.count > hc.max_retries
                THEN Exit(1)
                ELSE [hc EXCEPT !.pc = "request"]
    /\ UNCHANGED <<ecr_vars, ami_vars, s3_vars, config_vars, asg_vars, github_vars, main_vars, pipeline_vars, procs_vars, refresh_vars, cache_vars, vpn_vars>>

\* lines 365-371: add the trailing slash and `continue`
AfterRedirect(h) == [h EXCEPT !.ends_with_slash = TRUE, !.pc = "loop"]

\* lines 352-377: one request and what the loop does with the answer
Request ==
    /\ hc.pc = "request"
    /\ \E status \in Responses :
          LET got == [hc EXCEPT !.status = status, !.requested = TRUE]
          IN  hc' = IF status = 200
                    THEN IF hc.monitor THEN [got EXCEPT !.pc = "sleep"]
                         ELSE [got EXCEPT !.pc = "exit", !.exit_code = 0]
                    ELSE IF status \in {301, 308}
                    THEN AfterRedirect(got)
                    ELSE [got EXCEPT !.pc = "sleep"]
    /\ UNCHANGED <<ecr_vars, ami_vars, s3_vars, config_vars, asg_vars, github_vars, main_vars, pipeline_vars, procs_vars, refresh_vars, cache_vars, vpn_vars>>

\* lines 379-380
Sleep ==
    /\ hc.pc = "sleep"
    /\ hc.monitor => hc.count <= MaxRetries
    /\ hc' = [hc EXCEPT !.count = @ + 1, !.pc = "loop"]
    /\ UNCHANGED <<ecr_vars, ami_vars, s3_vars, config_vars, asg_vars, github_vars, main_vars, pipeline_vars, procs_vars, refresh_vars, cache_vars, vpn_vars>>

NextHealth == CheckLimits \/ Request \/ Sleep

\* the command keeps running until it exits
SpecHealth == InitHealth /\ [][NextHealth]_vars /\ WF_vars(NextHealth)

(* C16 *)

\* C16: without --monitor the command always terminates, whatever the
\* service answers (200, 301/308, other statuses, connection failures).
C16_AlwaysTerminates == ~hc.monitor => <>(hc.pc = "exit")

\* the exits themselves are as described: 0 right after a 200, 1 once count
\* has passed max_retries
C16_ExitCodes ==
    ~hc.monitor /\ hc.pc = "exit" =>
        \/ hc.exit_code = 0 /\ hc.requested /\ hc.status = 200
        \/ hc.exit_code = 1 /\ hc.count = Max(hc.max_retries, 0) + 1


----------------------------------------------------------------------------
(* The configuration file (utils/config.py) and `auth login`                *)
(* (commands/auth.py)                                                       *)
(*                                                                          *)
(* config_file is what ~/.awsbot/config.json holds: nothing ("missing"),    *)
(* text that is not JSON ("invalid"), a JSON value that is not an object    *)
(* ("other": a list, null, a number, a string) or a JSON object ("object"). *)
(* Of an object the model keeps the "profiles" mapping, if the key is       *)
(* there, and "active_profile", if the key is there.  A profile is a        *)
(* function from the keys it holds to their values.                         *)

ProfileNames == {"default", "client-a"}
ProfileKeys == {"aws_profile_name", "mfa_arn", "jira_token", "cached_session"}
UpdateKeys == {"aws_profile_name", "mfa_arn", "jira_token"}
NoActive == "(no active_profile key)"

StoredValue(k) == IF k = "cached_session" THEN "session-0" ELSE "v1"
NewSession == "session-1"   \* the credentials get_session_token returns

ProfileDatas == {[k \in S |-> StoredValue(k)] : S \in SUBSET ProfileKeys}
ProfileMaps == UNION {[N -> ProfileDatas] : N \in SUBSET ProfileNames}
Kwargs == {[k \in S |-> "v2"] : S \in (SUBSET UpdateKeys) \ {{}}}

ConfigData(has_profiles, profiles, active_profile) ==
    [has_profiles |-> has_profiles, profiles |-> profiles,
     active_profile |-> active_profile]

EmptyMap == [k \in {} |-> k]

\* lines 14 and 23
DefaultConfig == ConfigData(TRUE, EmptyMap, "default")

ObjectFile(data) == [kind |-> "object", data |-> data]

ConfigFiles ==
    {[kind |-> "missing"], [kind |-> "invalid"], [kind |-> "other"]}
    \cup {ObjectFile(ConfigData(TRUE, ps, a)) :
            ps \in ProfileMaps, a \in ProfileNames \cup {NoActive}}
    \cup {ObjectFile(ConfigData(FALSE, EmptyMap, a)) : a \in ProfileNames \cup {NoActive}}

\* lines 11-23: [raised, data]; on a JSON value that is not an object line 19
\* or line 20 raises a TypeError, which line 22 does not catch
load_config(file) ==
    IF file.kind \in {"missing", "invalid"}
    THEN [raised |-> FALSE, data |-> DefaultConfig]
    ELSE IF file.kind = "other"
    THEN [raised |-> TRUE, data |-> DefaultConfig]
    ELSE [raised |-> FALSE,
          data |-> IF file.data.has_profiles THEN file.data
                   ELSE [file.data EXCEPT !.has_profiles = TRUE, !.profiles = EmptyMap]]

\* lines 26-37
save_full_config(data) == ObjectFile(data)

\* an update that replaces the profile by the new values
MergedReplacing(old, kwargs) == kwargs

\* line 56: dict.update
Merged(old, kwargs) ==
    [k \in DOMAIN old \cup DOMAIN kwargs |->
        IF k \in DOMAIN kwargs THEN kwargs[k] ELSE old[k]]

\* dict.get(key, default) on a mapping
Get(map, key, default) == IF key \in DOMAIN map THEN map[key] ELSE default

\* d[key] = value on a mapping
Set(map, key, value) ==
    [k \in DOMAIN map \cup {key} |-> IF k = key THEN value ELSE map[k]]

CliRun(cmd, profile, kwargs, file, loaded, exit_code, saved, sts, after) ==
    [cmd |-> cmd, profile |-> profile, kwargs |-> kwargs, file_before |-> file,
     raised |-> loaded.raised, loaded |-> loaded.data, exit_code |-> exit_code,
     saved |-> saved, sts |-> sts, file_after |-> after]

\* lines 40-62 of config.py
update_profile(file, profile_name, kwargs) ==
    LET loaded == load_config(file)
        config == loaded.data
        current_profile_data == Merged(Get(config.profiles, profile_name, EmptyMap), kwargs)
        new_config == [config EXCEPT !.profiles = Set(@, profile_name, current_profile_data)]
    IN  IF loaded.raised
        THEN CliRun("update_profile", profile_name, kwargs, file, loaded, 1, FALSE, "not called", file)
        ELSE CliRun("update_profile", profile_name, kwargs, file, loaded, 0, TRUE, "not called",
                    save_full_config(new_config))


NoOption == "(no --profile)"
StsOutcomes == {"ok", "failed"}

\* a login that takes the session for granted
SessionObtainedAlways(sts) == TRUE

\* lines 94-98 against 114-116: get_session_token returned credentials
SessionObtained(sts) == sts = "ok"

\* line 72: the --profile option, else the file's active_profile, else "default"
active_profile_name(config, profile) ==
    IF profile # NoOption THEN profile
    ELSE IF config.active_profile # NoActive THEN config.active_profile
    ELSE "default"

\* lines 73-85: the profile is there, is not empty and holds both AWS details
LoginReady(config, name) ==
    /\ name \in DOMAIN config.profiles
    /\ config.profiles[name] # EmptyMap
    /\ {"aws_profile_name", "mfa_arn"} \subseteq DOMAIN config.profiles[name]

\* lines 57-116 of auth.py; sts is what get_session_token would do if called
login(file, profile, sts) ==
    LET loaded == load_config(file)
        config == loaded.data
        name == active_profile_name(config, profile)
        profile_data == Set(config.profiles[name], "cached_session", NewSession)
        new_config == [config EXCEPT !.profiles = Set(@, name, profile_data)]
    IN  IF loaded.raised \/ ~LoginReady(config, name)
        THEN CliRun("login", profile, EmptyMap, file, loaded, 1, FALSE, "not called", file)
        ELSE IF ~SessionObtained(sts)
        THEN CliRun("login", profile, EmptyMap, file, loaded, 1, FALSE, sts, file)
        ELSE CliRun("login", profile, EmptyMap, file, loaded, 0, TRUE, sts,
                    save_full_config(new_config))

InitConfig ==
    /\ config_file \in ConfigFiles
    /\ cli_runs = <<>>
    /\ EcrIdle /\ AmiIdle /\ S3Idle /\ HealthIdle /\ AsgIdle /\ GithubIdle /\ MainIdle /\ PipelineIdle /\ ProcsIdle /\ RefreshIdle /\ CacheIdle /\ VpnIdle

\* a command that only reads the configuration (the global callback of main.py)
LoadConfig ==
    /\ cli_runs = <<>>
    /\ LET loaded == load_config(config_file)
       IN  cli_runs' = <<CliRun("load_config", NoOption, EmptyMap, config_file, loaded,
                                IF loaded.raised THEN 1 ELSE 0, FALSE, "not called",
                                config_file)>>
    /\ UNCHANGED <<config_file, ecr_vars, ami_vars, s3_vars, health_vars, asg_vars, github_vars, main_vars, pipeline_vars, procs_vars, refresh_vars, cache_vars, vpn_vars>>

\* `awsbot auth configure --profile P ...`
UpdateProfile ==
    /\ cli_runs = <<>>
    /\ \E profile_name \in ProfileNames, kwargs \in Kwargs :
          LET run == update_profile(config_file, profile_name, kwargs)
          IN  /\ cli_runs' = <<run>>
              /\ config_file' = run.file_after
    /\ UNCHANGED <<ecr_vars, ami_vars, s3_vars, health_vars, asg_vars, github_vars, main_vars, pipeline_vars, procs_vars, refresh_vars, cache_vars, vpn_vars>>

\* `awsbot auth login [--profile P]`
Login ==
    /\ cli_runs = <<>>
    /\ \E profile \in ProfileNames \cup {NoOption}, sts \in StsOutcomes :
          LET run == login(config_file, profile, sts)
          IN  /\ cli_runs' = <<run>>
              /\ config_file' = run.file_after
    /\ UNCHANGED <<ecr_vars, ami_vars, s3_vars, health_vars, asg_vars, github_vars, main_vars, pipeline_vars, procs_vars, refresh_vars, cache_vars, vpn_vars>>

NextConfig == LoadConfig \/ UpdateProfile \/ Login

SpecConfig == InitConfig /\ [][NextConfig]_vars

(* C17 *)

CliRuns(cmd) == {k \in 1..Len(cli_runs) : cli_runs[k].cmd = cmd}
\* the configuration as load_config gives it
View(file) == load_config(file).data

\* C17: update_profile(p, **kwargs) changes only the given keys of profile p:
\* the other keys of p, the other profiles and active_profile stay as they
\* were; a missing p is created empty first.  A call that raises writes nothing.
C17_UpdateProfileFrame ==
    \A k \in CliRuns("update_profile") :
        LET run == cli_runs[k]
            p == run.profile
            before == View(run.file_before)
            after == View(run.file_after)
            old == Get(before.profiles, p, EmptyMap)
        IN  /\ run.raised => run.file_after = run.file_before
            /\ ~run.raised =>
                /\ config_file = run.file_after
                /\ after.active_profile = before.active_profile
                /\ DOMAIN after.profiles = DOMAIN before.profiles \cup {p}
                /\ \A n \in DOMAIN before.profiles \ {p} :
                      after.profiles[n] = before.profiles[n]
                /\ DOMAIN after.profiles[p] = DOMAIN old \cup DOMAIN run.kwargs
                /\ \A key \in DOMAIN run.kwargs : after.profiles[p][key] = run.kwargs[key]
                /\ \A key \in DOMAIN old \ DOMAIN run.kwargs :
                      after.profiles[p][key] = old[key]

\* one key of an existing profile is overwritten while another key of it, its
\* cached session and a second profile are in the file
C17_Witness ==
    \E k \in CliRuns("update_profile") :
        LET run == cli_runs[k]
            before == View(run.file_before)
        IN  /\ ~run.raised
            /\ run.profile = "client-a"
            /\ DOMAIN before.profiles = ProfileNames
            /\ DOMAIN before.profiles["client-a"] = ProfileKeys
            /\ before.profiles["default"] # EmptyMap
            /\ DOMAIN run.kwargs = {"mfa_arn"}
            /\ config_file.data.profiles["client-a"]["mfa_arn"] = "v2"

(* C18 *)

\* C18: load_config never fails: a missing file and a file that is not JSON
\* give the default configuration, every other file gives its data with a
\* "profiles" mapping.
C18_LoadConfigNeverFails ==
    \A k \in CliRuns("load_config") :
        LET run == cli_runs[k]
        IN  /\ ~run.raised
            /\ run.file_before.kind \in {"missing", "invalid"} => run.loaded = DefaultConfig
            /\ run.loaded.has_profiles

\* C18 for the files whose JSON value is an object
C18_LoadConfigOnObjects ==
    \A k \in CliRuns("load_config") :
        LET run == cli_runs[k]
        IN  run.file_before.kind # "other" =>
                /\ ~run.raised
                /\ run.file_before.kind \in {"missing", "invalid"} => run.loaded = DefaultConfig
                /\ run.loaded.has_profiles
                /\ run.file_before.kind = "object" =>
                      /\ run.loaded.active_profile = run.file_before.data.active_profile
                      /\ run.file_before.data.has_profiles =>
                            run.loaded = run.file_before.data

(* C19 *)

\* the failure paths of a login run, read off the file it started from
LoginFails(run) ==
    LET file == run.file_before
        config == View(file)
        name == active_profile_name(config, run.profile)
    IN  \/ file.kind = "other"
        \/ name \notin DOMAIN config.profiles
        \/ "aws_profile_name" \notin DOMAIN config.profiles[name]
        \/ "mfa_arn" \notin DOMAIN config.profiles[name]
        \/ run.sts = "failed"

\* C19: on every failure path of auth login (profile missing, no
\* aws_profile_name or no mfa_arn in it, STS failing) the exit code is 1,
\* save_full_config is not called and the stored configuration is unchanged;
\* the cached credentials are written only after get_session_token succeeded.
C19_LoginFailureLeavesConfig ==
    \A k \in CliRuns("login") :
        LET run == cli_runs[k]
        IN  /\ LoginFails(run) =>
                /\ run.exit_code = 1
                /\ ~run.saved
                /\ run.file_after = run.file_before
                /\ config_file = run.file_before
            /\ run.saved \/ run.file_after # run.file_before => run.sts = "ok"

\* a login on a complete profile whose get_session_token call fails
C19_Witness ==
    \E k \in CliRuns("login") :
        LET run == cli_runs[k]
        IN  /\ run.sts = "failed"
            /\ run.file_before.kind = "object"
            /\ LoginReady(View(run.file_before), active_profile_name(View(run.file_before), run.profile))
            /\ run.exit_code = 1
            /\ config_file = run.file_before


----------------------------------------------------------------------------
(* find_target_instance (commands/infra.py)                                 *)
(*                                                                          *)
(* An Auto Scaling group is [Tags, Instances]: its tags as the dict line 39 *)
(* builds, and its instances as [InstanceId, LifecycleState].  random.choice*)
(* and the answer of describe_instances are choices of the environment.     *)

MaxAsgs == 2            \* Auto Scaling groups in the account
MaxAsgInstances == 2    \* instances of one group

NoInstance == 0         \* nothing returned: sys.exit was called

Projects == {"alpha", "beta"}
Environments == {"prod", "dev"}
AsgTags ==
    {[Project |-> "alpha", Environment |-> "prod"],
     [Project |-> "alpha", Environment |-> "dev"],
     [Project |-> "beta", Environment |-> "prod"],
     [Environment |-> "prod"]}
LifecycleStates == {"InService", "Terminating"}
Ec2Answers == {"10.0.0.1", "no reservations", "error"}

\* the instances of the a-th group: ids are unique in the account
AsgInstances(a, states) ==
    [k \in 1..Len(states) |->
        [InstanceId |-> (a - 1) * MaxAsgInstances + k, LifecycleState |-> states[k]]]

StateLists == UNION {[1..m -> LifecycleStates] : m \in 0..MaxAsgInstances}

AsgLists(n) ==
    {[a \in 1..n |-> [Tags |-> t[a], Instances |-> AsgInstances(a, st[a])]] :
        t \in [1..n -> AsgTags], st \in [1..n -> StateLists]}

\* line 40
TagsMatch(asg, project, env) ==
    /\ Get(asg.Tags, "Project", "") = project
    /\ Get(asg.Tags, "Environment", "") = env

\* lines 37-41
matching_asgs(groups, project, env) ==
    LET Matches(asg) == TagsMatch(asg, project, env)
    IN  SelectSeq(groups, Matches)

\* a selection that takes any instance of the group
IsCandidateAnyState(inst) == TRUE

\* line 55
IsCandidate(inst) == inst.LifecycleState = "InService"

\* lines 52-56
candidate_ids(matching) ==
    LET ids(asg) ==
            LET hits == SelectSeq(asg.Instances, IsCandidate)
            IN  [k \in 1..Len(hits) |-> hits[k].InstanceId]
    IN  Flatten([a \in 1..Len(matching) |-> ids(matching[a])])

Found(groups, project, env, exit_code, target_id, target_ip) ==
    [asgs |-> groups, project |-> project, env |-> env, exit_code |-> exit_code,
     target_id |-> target_id, target_ip |-> target_ip]

\* lines 19-79; pick is the position random.choice takes
find_target_instance(groups, project, env, pick, answer) ==
    LET matching == matching_asgs(groups, project, env)
        candidates == candidate_ids(matching)
    IN  IF matching = <<>> \/ candidates = <<>>
        THEN Found(groups, project, env, 1, NoInstance, "")
        ELSE Found(groups, project, env, 0, candidates[pick],
                   IF answer \in {"no reservations", "error"} THEN "Unknown" ELSE answer)

InitAsg ==
    /\ \E n \in 0..MaxAsgs : asgs \in AsgLists(n)
    /\ found = <<>>
    /\ EcrIdle /\ AmiIdle /\ S3Idle /\ HealthIdle /\ ConfigIdle /\ GithubIdle /\ MainIdle /\ PipelineIdle /\ ProcsIdle /\ RefreshIdle /\ CacheIdle /\ VpnIdle

\* `awsbot infra connect --project P --env E`, up to the SSM session
FindTargetInstance ==
    /\ found = <<>>
    /\ \E project \in Projects, env \in Environments, answer \in Ec2Answers :
          \E pick \in 1..Max(1, Len(candidate_ids(matching_asgs(asgs, project, env)))) :
              found' = <<find_target_instance(asgs, project, env, pick, answer)>>
    /\ UNCHANGED <<asgs, ecr_vars, ami_vars, s3_vars, health_vars, config_vars, github_vars, main_vars, pipeline_vars, procs_vars, refresh_vars, cache_vars, vpn_vars>>

NextAsg == FindTargetInstance

SpecAsg == InitAsg /\ [][NextAsg]_vars

(* C20 *)

\* the groups of a call whose tags are the project and the environment asked for
MatchingGroups(f) ==
    {a \in 1..Len(f.asgs) :
        /\ "Project" \in DOMAIN f.asgs[a].Tags /\ f.asgs[a].Tags["Project"] = f.project
        /\ "Environment" \in DOMAIN f.asgs[a].Tags /\ f.asgs[a].Tags["Environment"] = f.env}

InServiceIn(f, a) ==
    {f.asgs[a].Instances[k].InstanceId :
        k \in {j \in 1..Len(f.asgs[a].Instances) :
                  f.asgs[a].Instances[j].LifecycleState = "InService"}}

\* C20: find_target_instance returns only the ID of an InService instance of
\* a group tagged Project = project and Environment = env; when no group
\* matches, or no matching group has an InService instance, it exits with
\* status 1 and returns nothing.
C20_TargetIsInServiceInMatchingAsg ==
    \A k \in 1..Len(found) :
        LET f == found[k]
            eligible == UNION {InServiceIn(f, a) : a \in MatchingGroups(f)}
        IN  /\ f.exit_code = 0 => f.target_id \in eligible
            /\ eligible = {} => f.exit_code = 1 /\ f.target_id = NoInstance

\* the InService instance of the matching group is returned although the
\* group also holds a Terminating instance and another group, with other
\* tags, has an InService one
C20_Witness ==
    /\ Len(found) = 1
    /\ found[1].exit_code = 0
    /\ Len(asgs) = 2
    /\ MatchingGroups(found[1]) = {2}
    /\ InServiceIn(found[1], 1) # {}
    /\ Len(asgs[2].Instances) = 2
    /\ asgs[2].Instances[1].LifecycleState = "Terminating"
    /\ found[1].target_id = asgs[2].Instances[2].InstanceId


----------------------------------------------------------------------------
(* `awsbot github audit-repos` (commands/github.py)                         *)
(*                                                                          *)
(* org_repos lists the names of the organization's public repositories in   *)
(* the order the API lists them; whether a repository is a fork follows     *)
(* from its name and the pattern of the run.  One action is one pass of the *)
(* `while True` loop: a page is requested and every repository on it is     *)
(* handled.  GitHub is the environment: a listing may answer with an error  *)
(* object, and the delete and patch requests, whose responses the command   *)
(* does not read, either all take effect or (a token without the rights)    *)
(* none does.  A deleted or private repository is no longer listed.         *)

MaxOrgRepos == 205  \* public repositories of the organization

per_page == 100     \* github.py line 114

ForkPatterns == {"forks", "sources", "mixed"}

\* repo.get("fork", False) of the repository called name
IsFork(pattern, name) ==
    \/ pattern = "forks"
    \/ pattern = "mixed" /\ name % 2 = 1

\* line 149
NextPage(page) == page + 1

\* lines 114-116: page number `page` of the listing as it is now
ListPage(listing, page) ==
    PySlice(listing, (page - 1) * per_page, page * per_page)

InitGithub ==
    /\ \E n \in 0..MaxOrgRepos : org_repos = [i \in 1..n |-> i]
    /\ \E pattern \in ForkPatterns, fix \in BOOLEAN, effective \in BOOLEAN :
          /\ ~fix => effective
          /\ audit = [fix |-> fix, effective |-> effective, pattern |-> pattern,
                      total |-> Len(org_repos), page |-> 1, deleted |-> {},
                      patched |-> {}, errored |-> FALSE, pc |-> "scan"]
    /\ EcrIdle /\ AmiIdle /\ S3Idle /\ HealthIdle /\ ConfigIdle /\ AsgIdle /\ MainIdle /\ PipelineIdle /\ ProcsIdle /\ RefreshIdle /\ CacheIdle /\ VpnIdle

\* lines 113-149: one pass of the loop
AuditPage ==
    /\ audit.pc = "scan"
    /\ \E is_list \in BOOLEAN :
          LET repos == ListPage(org_repos, audit.page)
              names == SeqToSet(repos)
              forks == {name \in names : IsFork(audit.pattern, name)}
              Stays(name) == name \notin names
          IN  IF ~is_list \/ repos = <<>>
              THEN /\ audit' = [audit EXCEPT !.pc = "done",
                                             !.errored = @ \/ ~is_list]
                   /\ UNCHANGED org_repos
              ELSE /\ audit' = [audit EXCEPT
                                  !.page = NextPage(@),
                                  !.deleted = IF audit.fix THEN @ \cup forks ELSE @,
                                  !.patched = IF audit.fix THEN @ \cup (names \ forks) ELSE @]
                   /\ org_repos' = IF audit.fix /\ audit.effective
                                   THEN SelectSeq(org_repos, Stays)
                                   ELSE org_repos
    /\ UNCHANGED <<ecr_vars, ami_vars, s3_vars, health_vars, config_vars, asg_vars, main_vars, pipeline_vars, procs_vars, refresh_vars, cache_vars, vpn_vars>>

NextGithub == AuditPage

SpecGithub == InitGithub /\ [][NextGithub]_vars

(* C21 *)

\* C21: when a scan with --fix ends, a delete request has been issued for
\* every public fork and a make-private request for every public repository
\* that is not a fork, for any number of repositories and pages.
C21_FixReachesEveryPublicRepo ==
    audit.pc = "done" /\ audit.fix /\ ~audit.errored =>
        \A name \in 1..audit.total :
            IF IsFork(audit.pattern, name)
            THEN name \in audit.deleted
            ELSE name \in audit.patched

\* C21 for an organization whose public repositories fit on one page
C21_FixReachesEveryRepoOfOnePage ==
    audit.pc = "done" /\ audit.fix /\ ~audit.errored /\ audit.total <= per_page =>
        \A name \in 1..audit.total :
            IF IsFork(audit.pattern, name)
            THEN name \in audit.deleted
            ELSE name \in audit.patched


----------------------------------------------------------------------------
(* The global callback cli_config (main.py)                                 *)
(*                                                                          *)
(* The configuration file is the one of utils/config.py.  Every value a     *)
(* profile stores is written <<profile name, key>>, so that an exported     *)
(* variable shows which profile it came from.                               *)

CallbackProfiles == {"default", "prod"}
SessionKeys == {"aws_access_key_id", "aws_secret_access_key", "aws_session_token"}

\* a value that is falsy in Python: "", {} or None
EmptyValue == <<>>

CachedSession(n) == [k \in SessionKeys |-> <<n, k>>]

\* the profiles a file may hold under the name n: any of cached_session,
\* aws_profile_name and jira_url, and gitlab_token absent, empty or set
CallbackProfileDatas(n) ==
    {[k \in S \cup G |->
        IF k = "cached_session" THEN CachedSession(n)
        ELSE IF k = "gitlab_token" /\ empty THEN EmptyValue ELSE <<n, k>>] :
        S \in SUBSET {"cached_session", "aws_profile_name", "jira_url"},
        G \in {{}, {"gitlab_token"}}, empty \in BOOLEAN}

CallbackProfileMaps ==
    UNION {{ps \in [N -> UNION {CallbackProfileDatas(n) : n \in N}] :
               \A n \in N : ps[n] \in CallbackProfileDatas(n)} :
           N \in SUBSET CallbackProfiles}

CallbackFiles ==
    {[kind |-> "missing"], [kind |-> "invalid"], [kind |-> "other"]}
    \cup {ObjectFile(ConfigData(TRUE, ps, a)) :
            ps \in CallbackProfileMaps, a \in CallbackProfiles \cup {NoActive}}

\* a callback that looks at the file's active_profile only
ResolvedProfileIgnoringFlag(full_config, profile) ==
    IF full_config.active_profile # NoActive THEN full_config.active_profile
    ELSE "default"

\* line 45: the flag, else the file's active_profile, else "default"
ResolvedProfile(full_config, profile) ==
    IF profile # NoOption THEN profile
    ELSE IF full_config.active_profile # NoActive THEN full_config.active_profile
    ELSE "default"

\* `if d.get(key):` on a mapping
Truthy(map, key) == key \in DOMAIN map /\ map[key] # EmptyValue

\* lines 54-71: the variables put into os.environ
Exports(profile_data) ==
    LET cached_session == Get(profile_data, "cached_session", EmptyMap)
        aws == IF Truthy(cached_session, "aws_access_key_id")
               THEN {<<"AWS_ACCESS_KEY_ID", cached_session["aws_access_key_id"]>>,
                     <<"AWS_SECRET_ACCESS_KEY", cached_session["aws_secret_access_key"]>>,
                     <<"AWS_SESSION_TOKEN", cached_session["aws_session_token"]>>}
               ELSE {}
        prof == IF Truthy(profile_data, "aws_profile_name")
                THEN {<<"AWS_PROFILE", profile_data["aws_profile_name"]>>} ELSE {}
        jira == IF Truthy(profile_data, "jira_url")
                THEN {<<"JIRA_URL", profile_data["jira_url"]>>} ELSE {}
        gitlab == IF Truthy(profile_data, "gitlab_token")
                  THEN {<<"GITLAB_TOKEN", profile_data["gitlab_token"]>>} ELSE {}
        pairs == aws \cup prof \cup jira \cup gitlab
    IN  [var \in {pr[1] : pr \in pairs} |-> (CHOOSE pr \in pairs : pr[1] = var)[2]]

\* lines 29-74; the record holds what the callback read and did
cli_config(file, profile) ==
    LET loaded == load_config(file)
        full_config == loaded.data
        name == ResolvedProfile(full_config, profile)
        profile_data == Get(full_config.profiles, name, EmptyMap)
    IN  [profile |-> profile, file |-> file, raised |-> loaded.raised,
         profile_name |-> IF loaded.raised THEN "" ELSE name,
         exported |-> IF loaded.raised THEN EmptyMap ELSE Exports(profile_data)]

InitMain ==
    /\ config_file \in CallbackFiles
    /\ cli_runs = <<>>
    /\ environ = <<>>
    /\ main_runs = <<>>
    /\ EcrIdle /\ AmiIdle /\ S3Idle /\ HealthIdle /\ AsgIdle /\ GithubIdle /\ PipelineIdle /\ ProcsIdle /\ RefreshIdle /\ CacheIdle /\ VpnIdle

\* `awsbot [--profile P] <command>`: the callback, before the command runs
CliConfig ==
    /\ main_runs = <<>>
    /\ \E profile \in CallbackProfiles \cup {NoOption} :
          LET run == cli_config(config_file, profile)
          IN  /\ main_runs' = <<run>>
              /\ environ' = run.exported
    /\ UNCHANGED <<config_vars, ecr_vars, ami_vars, s3_vars, health_vars, asg_vars, github_vars, pipeline_vars, procs_vars, refresh_vars, cache_vars, vpn_vars>>

NextMain == CliConfig

SpecMain == InitMain /\ [][NextMain]_vars

(* C22 *)

\* the key of the profile data each exported variable is taken from
ExportSource ==
    [var \in {"AWS_ACCESS_KEY_ID", "AWS_SECRET_ACCESS_KEY", "AWS_SESSION_TOKEN",
              "AWS_PROFILE", "JIRA_URL", "GITLAB_TOKEN"} |->
        CASE var = "AWS_ACCESS_KEY_ID" -> "aws_access_key_id"
          [] var = "AWS_SECRET_ACCESS_KEY" -> "aws_secret_access_key"
          [] var = "AWS_SESSION_TOKEN" -> "aws_session_token"
          [] var = "AWS_PROFILE" -> "aws_profile_name"
          [] var = "JIRA_URL" -> "jira_url"
          [] var = "GITLAB_TOKEN" -> "gitlab_token"]

\* C22: the callback resolves the active profile as the --profile flag if
\* given, else the file's active_profile, else "default", and every variable
\* it exports holds the value the resolved profile stores for it.
C22_ExportsComeFromResolvedProfile ==
    \A k \in 1..Len(main_runs) :
        LET run == main_runs[k]
            stored == View(run.file)
            expected == IF run.profile # NoOption THEN run.profile
                        ELSE IF run.file.kind = "object"
                                /\ run.file.data.active_profile # NoActive
                        THEN run.file.data.active_profile
                        ELSE "default"
        IN  ~run.raised =>
                /\ run.profile_name = expected
                /\ environ = run.exported
                /\ \A var \in DOMAIN run.exported :
                      /\ expected \in DOMAIN stored.profiles
                      /\ run.exported[var] = <<expected, ExportSource[var]>>

\* the flag names one profile, the file's active_profile another, both hold
\* every key, and all six variables are exported
C22_Witness ==
    /\ Len(main_runs) = 1
    /\ main_runs[1].profile = "prod"
    /\ main_runs[1].file.kind = "object"
    /\ main_runs[1].file.data.active_profile = "default"
    /\ DOMAIN main_runs[1].file.data.profiles = CallbackProfiles
    /\ Truthy(main_runs[1].file.data.profiles["default"], "gitlab_token")
    /\ Cardinality(DOMAIN environ) = 6
    /\ environ["GITLAB_TOKEN"] = <<"prod", "gitlab_token">>


----------------------------------------------------------------------------
(* The AI pipeline run_ai_pipeline (workflow/pipeline.py)                   *)
(*                                                                          *)
(* A branch name is the sequence of its characters; the outputs of git,     *)
(* glab and Gemini are a text or Nothing (None, "" or []).                  *)

Nothing == <<>>
Digits == {"0", "1", "2", "3", "4", "5", "6", "7", "8", "9"}

\* "main", "STS-1234", "f/STS-1234-x", "STS-123", "sts-1234", "STS-12345",
\* "STS-12a4", and no branch at all
Branches ==
    {<<"m", "a", "i", "n">>,
     <<"S", "T", "S", "-", "1", "2", "3", "4">>,
     <<"f", "/", "S", "T", "S", "-", "1", "2", "3", "4", "-", "x">>,
     <<"S", "T", "S", "-", "1", "2", "3">>,
     <<"s", "t", "s", "-", "1", "2", "3", "4">>,
     <<"S", "T", "S", "-", "1", "2", "3", "4", "5">>,
     <<"S", "T", "S", "-", "1", "2", "a", "4">>,
     Nothing}

\* the positions where r"STS-\d{n}" matches
MatchesAt(branch, n) ==
    {i \in 1..(Len(branch) - 3 - n) :
        /\ SubSeq(branch, i, i + 3) = <<"S", "T", "S", "-">>
        /\ \A d \in 1..n : branch[i + 3 + d] \in Digits}

\* a search for r"STS-\d*": the prefix alone is taken for an id
get_jira_id_prefix(branch) ==
    IF MatchesAt(branch, 0) = {} THEN Nothing
    ELSE LET i == CHOOSE m \in MatchesAt(branch, 0) : \A o \in MatchesAt(branch, 0) : m <= o
         IN  SubSeq(branch, i, Min(i + 7, Len(branch)))

\* lines 37-43: re.search(r"STS-\d{4}", branch), the leftmost match
get_jira_id(branch) ==
    IF MatchesAt(branch, 4) = {} THEN Nothing
    ELSE LET i == CHOOSE m \in MatchesAt(branch, 4) : \A o \in MatchesAt(branch, 4) : m <= o
         IN  SubSeq(branch, i, i + 7)

PipelineCall(op, args) == [op |-> op, args |-> args]

\* lines 46-94; w is what the tools answer, the result is the calls made, in
\* order, and whether the run reached line 94
run_ai_pipeline(w, update_mr, update_jira, review) ==
    LET branch == w.branch
        jira_id == get_jira_id(branch)
        git == <<PipelineCall("run_command", <<"git rev-parse">>)>>
        template == <<PipelineCall("find_template", <<>>)>>
        diff == <<PipelineCall("run_command", <<"glab mr diff", branch>>)>>
        reviewed ==
            IF ~review THEN <<>>
            ELSE <<PipelineCall("get_gemini_review", <<w.diff_content>>)>>
                 \o (IF w.review_text # Nothing
                     THEN <<PipelineCall("post_gemini_review", <<branch, w.review_text>>)>>
                     ELSE <<>>)
        summary == <<PipelineCall("get_gemini_summary",
                                  <<w.template_content, w.diff_content>>)>>
        labels == <<PipelineCall("get_gemini_labels", <<w.diff_content>>)>>
        updates ==
            (IF update_mr
             THEN <<PipelineCall("update_gitlab_mr", <<branch, w.summary, w.tags>>)>>
             ELSE <<>>)
            \o (IF update_jira /\ jira_id # Nothing
                THEN <<PipelineCall("update_jira_issue", <<jira_id, w.summary>>)>>
                ELSE <<>>)
        calls ==
            IF branch = Nothing THEN git                               \* lines 51-53
            ELSE IF ~w.template_found THEN git \o template             \* lines 58-60
            ELSE IF w.diff_content = Nothing THEN git \o template \o diff  \* 68-70
            ELSE IF w.summary = Nothing
            THEN git \o template \o diff \o reviewed \o summary        \* lines 80-81
            ELSE git \o template \o diff \o reviewed \o summary \o labels \o updates
    IN  [update_mr |-> update_mr, update_jira |-> update_jira, review |-> review,
         workspace |-> w, calls |-> calls,
         done |-> /\ branch # Nothing /\ w.template_found
                  /\ w.diff_content # Nothing /\ w.summary # Nothing]

Workspaces ==
    [branch : Branches, template_found : BOOLEAN, template_content : {"template"},
     diff_content : {Nothing, <<"diff">>}, review_text : {Nothing, <<"review">>},
     summary : {Nothing, <<"summary">>}, tags : {Nothing, <<"labels">>}]

InitPipeline ==
    /\ workspace \in Workspaces
    /\ pipeline_runs = <<>>
    /\ EcrIdle /\ AmiIdle /\ S3Idle /\ HealthIdle /\ ConfigIdle /\ AsgIdle /\ GithubIdle /\ MainIdle /\ ProcsIdle /\ RefreshIdle /\ CacheIdle /\ VpnIdle

\* `awsbot workflow ...`: one run of the pipeline
RunAiPipeline ==
    /\ pipeline_runs = <<>>
    /\ \E update_mr \in BOOLEAN, update_jira \in BOOLEAN, review \in BOOLEAN :
          pipeline_runs' = <<run_ai_pipeline(workspace, update_mr, update_jira, review)>>
    /\ UNCHANGED <<workspace, ecr_vars, ami_vars, s3_vars, health_vars, config_vars, asg_vars, github_vars, main_vars, procs_vars, refresh_vars, cache_vars, vpn_vars>>

NextPipeline == RunAiPipeline

SpecPipeline == InitPipeline /\ [][NextPipeline]_vars

(* C24 *)

\* the positions of the calls of op in a run
CallsAt(run, op) == {i \in 1..Len(run.calls) : run.calls[i].op = op}

\* the branch name holds "STS-" followed by four digits
HasJiraId(branch) ==
    \E i \in 1..Len(branch) :
        /\ i + 7 <= Len(branch)
        /\ branch[i] = "S" /\ branch[i + 1] = "T" /\ branch[i + 2] = "S" /\ branch[i + 3] = "-"
        /\ \A d \in 4..7 : branch[i + d] \in Digits

----------------------------------------------------------------------------
(* Two CLI processes on one configuration file                              *)
(*                                                                          *)
(* update_profile (config.py 47 and 62) and login (auth.py 69 and 109) read *)
(* the file with load_config, change their copy and write the whole copy    *)
(* back with save_full_config; nothing locks the file in between.  Process  *)
(* 1 works on profile "default", process 2 on profile "client-a".           *)

Procs == {1, 2}
ProfileOf(p) == IF p = 1 THEN "default" ELSE "client-a"

\* profiles `auth login` accepts
LoginDatas == {d \in ProfileDatas : {"aws_profile_name", "mfa_arn"} \subseteq DOMAIN d}

SharedFiles ==
    {[kind |-> "missing"]}
    \cup {ObjectFile(ConfigData(TRUE, ps, "default")) : ps \in [ProfileNames -> LoginDatas]}

\* what a process was started to do
Commands(p) ==
    {[cmd |-> "update_profile", profile |-> ProfileOf(p), kwargs |-> kw, sts |-> "not called"] :
        kw \in Kwargs}
    \cup {[cmd |-> "login", profile |-> ProfileOf(p), kwargs |-> EmptyMap, sts |-> sts] :
            sts \in StsOutcomes}

\* the command of process p run on the copy it holds
RunOnCopy(p) ==
    IF procs[p].command.cmd = "update_profile"
    THEN update_profile(ObjectFile(procs[p].config), procs[p].command.profile,
                        procs[p].command.kwargs)
    ELSE login(ObjectFile(procs[p].config), procs[p].command.profile, procs[p].command.sts)

\* the save_full_config calls made so far
SavesDone == Cardinality({p \in DOMAIN procs : procs[p].pc = "done" /\ procs[p].saved})

InitProcs ==
    /\ config_file \in SharedFiles
    /\ cli_runs = <<>>
    /\ \E c1 \in Commands(1), c2 \in Commands(2) :
          procs = [p \in Procs |->
                     [command |-> IF p = 1 THEN c1 ELSE c2, pc |-> "load",
                      config |-> DefaultConfig, saved |-> FALSE, saves_seen |-> 0]]
    /\ EcrIdle /\ AmiIdle /\ S3Idle /\ HealthIdle /\ AsgIdle /\ GithubIdle /\ MainIdle /\ PipelineIdle /\ RefreshIdle /\ CacheIdle /\ VpnIdle

\* config.py line 47, auth.py line 69: the process reads the file
ProcLoad(p) ==
    /\ procs[p].pc = "load"
    /\ procs' = [procs EXCEPT ![p].config = load_config(config_file).data,
                              ![p].saves_seen = SavesDone,
                              ![p].pc = "save"]
    /\ UNCHANGED <<config_file, cli_runs, ecr_vars, ami_vars, s3_vars, health_vars, asg_vars, github_vars, main_vars, pipeline_vars, refresh_vars, cache_vars, vpn_vars>>

\* config.py lines 50-62, auth.py lines 72-110: the process changes its copy
\* and writes it, or ends without writing
ProcSave(p) ==
    /\ procs[p].pc = "save"
    /\ LET run == RunOnCopy(p)
       IN  /\ procs' = [procs EXCEPT ![p].saved = run.saved, ![p].pc = "done"]
           /\ config_file' = IF run.saved THEN run.file_after ELSE config_file
    /\ UNCHANGED <<cli_runs, ecr_vars, ami_vars, s3_vars, health_vars, asg_vars, github_vars, main_vars, pipeline_vars, refresh_vars, cache_vars, vpn_vars>>

NextProcs == \E p \in Procs : ProcLoad(p) \/ ProcSave(p)

SpecProcs == InitProcs /\ [][NextProcs]_vars

(* C25 *)

\* the file holds what process p set out to store in its profile
HoldsUpdateOf(p) ==
    /\ config_file.kind = "object"
    /\ ProfileOf(p) \in DOMAIN config_file.data.profiles
    /\ LET stored == config_file.data.profiles[ProfileOf(p)]
       IN  IF procs[p].command.cmd = "login"
           THEN "cached_session" \in DOMAIN stored /\ stored["cached_session"] = NewSession
           ELSE \A k \in DOMAIN procs[p].command.kwargs :
                   k \in DOMAIN stored /\ stored[k] = procs[p].command.kwargs[k]

BothSaved == \A p \in Procs : procs[p].pc = "done" /\ procs[p].saved

\* C25: when two processes modify different profiles concurrently, the final
\* file holds both modifications under every interleaving of their
\* load_config and save_full_config steps.
C25_NoUpdateLost == BothSaved => \A p \in Procs : HoldsUpdateOf(p)

\* what the code does give: when one process reads the file only after the
\* other has written it, the final file holds both modifications
C25_SerialRunsKeepBoth ==
    (BothSaved /\ \E p \in Procs : procs[p].saves_seen = 1)
        => \A p \in Procs : HoldsUpdateOf(p)


----------------------------------------------------------------------------
(* `infra refresh`: start_instance_refresh and the polling loop             *)
(* (commands/infra.py 224-275)                                              *)
(*                                                                          *)
(* The service moves the refresh through the statuses of                    *)
(* describe_instance_refreshes on its own; the command reads the status of  *)
(* the moment every ten seconds.                                            *)

\* the statuses after which the service changes nothing any more
FinalStatuses == {"Successful", "Failed", "Cancelled", "RollbackSuccessful", "RollbackFailed"}

\* the statuses that follow a status
StatusesAfter(status) ==
    CASE status = "Pending" -> {"InProgress", "Cancelling", "Failed"}
      [] status = "InProgress" ->
            {"Baking", "Successful", "Failed", "Cancelling", "RollbackInProgress"}
      [] status = "Baking" ->
            {"InProgress", "Successful", "Failed", "Cancelling", "RollbackInProgress"}
      [] status = "Cancelling" -> {"Cancelled"}
      [] status = "RollbackInProgress" -> {"RollbackSuccessful", "RollbackFailed"}
      [] OTHER -> {}

\* what start_instance_refresh does
StartOutcomes == {"started", "InstanceRefreshInProgressFault", "error"}

\* PercentageComplete as the service reports it
Percentages == {0, 50, 100}

\* lines 257-267: what the loop does after reading a status
AfterStatus(status) ==
    IF status = "Successful" THEN [pc |-> "exit", exit_code |-> 0]
    ELSE IF status \in {"Failed", "Cancelled", "RollbackInProgress", "RollbackFailed"}
    THEN [pc |-> "exit", exit_code |-> 1]
    ELSE [pc |-> "sleep", exit_code |-> NoExit]

InitRefresh ==
    /\ refresh = [status |-> "none", percent |-> 0]
    /\ \E outcome \in StartOutcomes :
          poll = [pc |-> "start", outcome |-> outcome, status |-> "none", percent |-> 0,
                  exit_code |-> NoExit]
    /\ EcrIdle /\ AmiIdle /\ S3Idle /\ HealthIdle /\ ConfigIdle /\ AsgIdle /\ GithubIdle /\ MainIdle /\ PipelineIdle /\ ProcsIdle /\ CacheIdle /\ VpnIdle

\* lines 225-238
StartRefresh ==
    /\ poll.pc = "start"
    /\ IF poll.outcome = "started"
       THEN /\ refresh' = [status |-> "Pending", percent |-> 0]
            /\ poll' = [poll EXCEPT !.pc = "describe"]
       ELSE /\ refresh' = refresh
            /\ poll' = [poll EXCEPT !.pc = "exit", !.exit_code = 1]
    /\ UNCHANGED <<ecr_vars, ami_vars, s3_vars, health_vars, config_vars, asg_vars, github_vars, main_vars, pipeline_vars, procs_vars, cache_vars, vpn_vars>>

\* the service: the refresh goes on
Progress ==
    /\ refresh.status # "none"
    /\ \E status \in StatusesAfter(refresh.status), percent \in Percentages :
          /\ percent >= refresh.percent
          /\ status = "Successful" => percent = 100
          /\ refresh' = [status |-> status, percent |-> percent]
    /\ UNCHANGED <<poll, ecr_vars, ami_vars, s3_vars, health_vars, config_vars, asg_vars, github_vars, main_vars, pipeline_vars, procs_vars, cache_vars, vpn_vars>>

\* lines 243-267: one pass of the loop up to the sleep
DescribeRefresh ==
    /\ poll.pc = "describe"
    /\ poll' = [poll EXCEPT !.status = refresh.status, !.percent = refresh.percent,
                            !.pc = AfterStatus(refresh.status).pc,
                            !.exit_code = AfterStatus(refresh.status).exit_code]
    /\ UNCHANGED <<refresh, ecr_vars, ami_vars, s3_vars, health_vars, config_vars, asg_vars, github_vars, main_vars, pipeline_vars, procs_vars, cache_vars, vpn_vars>>

\* line 269
SleepRefresh ==
    /\ poll.pc = "sleep"
    /\ poll' = [poll EXCEPT !.pc = "describe"]
    /\ UNCHANGED <<refresh, ecr_vars, ami_vars, s3_vars, health_vars, config_vars, asg_vars, github_vars, main_vars, pipeline_vars, procs_vars, cache_vars, vpn_vars>>

\* lines 271-272: Ctrl-C during the loop ends the command
Interrupt ==
    /\ poll.pc \in {"describe", "sleep"}
    /\ poll' = [poll EXCEPT !.pc = "stopped", !.exit_code = 0]
    /\ UNCHANGED <<refresh, ecr_vars, ami_vars, s3_vars, health_vars, config_vars, asg_vars, github_vars, main_vars, pipeline_vars, procs_vars, cache_vars, vpn_vars>>

NextRefresh == StartRefresh \/ Progress \/ DescribeRefresh \/ SleepRefresh \/ Interrupt

\* the command keeps running; the service and the user owe nothing
SpecRefresh ==
    InitRefresh /\ [][NextRefresh]_vars
    /\ WF_vars(StartRefresh \/ DescribeRefresh \/ SleepRefresh)

(* C26 *)

Ended == poll.pc \in {"exit", "stopped"}

\* C26: the polling loop terminates whenever the refresh reaches a final
\* status.
C26_EndsOnEveryFinalStatus == [](refresh.status \in FinalStatuses => <>Ended)

\* what the code does give: the loop ends on every final status but
\* RollbackSuccessful
C26_EndsOnHandledFinalStatus ==
    [](refresh.status \in FinalStatuses \ {"RollbackSuccessful"} => <>Ended)

\* and it ends with success on Successful only, with exit code 1 on the four
\* statuses of line 261 only, and sleeps on no other final status than
\* RollbackSuccessful
C26_ExitCodes ==
    /\ (poll.pc = "exit" /\ poll.exit_code = 0) => poll.status = "Successful"
    /\ (poll.pc = "exit" /\ poll.exit_code = 1 /\ poll.outcome = "started") =>
          poll.status \in {"Failed", "Cancelled", "RollbackInProgress", "RollbackFailed"}
    /\ poll.pc = "sleep" => poll.status \notin FinalStatuses \ {"RollbackSuccessful"}


----------------------------------------------------------------------------
(* get_bucket_size and its cache (reports/s3.py 23-63, commands/s3.py)      *)
(*                                                                          *)
(* Times are seconds since the epoch, in steps of half a day.               *)

MaxSizeCalls == 2     \* calls of get_bucket_size in a behaviour
DaySeconds == 86400   \* reports/s3.py line 31
Times == {0, 43200, 86400, 129600}
BucketNames == {"logs"}
MetricValue == 7      \* the Maximum of the latest datapoint of a good answer
EarlierSize == 5      \* a size cached by an earlier report

\* what get_metric_statistics does: raises, answers without datapoints, or
\* answers with datapoints
MetricOutcomes == {"failed", "empty", "ok"}

CacheEntry(size, timestamp) == [size |-> size, timestamp |-> timestamp]

\* lines 27-31: the entry of the bucket is there and younger than a day
Fresh(cache_data, bucket_name, now) ==
    /\ bucket_name \in DOMAIN cache_data
    /\ now - cache_data[bucket_name].timestamp < DaySeconds

\* lines 36-54: the size after the query
QueriedSize(outcome) == IF outcome = "ok" THEN MetricValue ELSE 0

\* lines 23-63; given: cache_data is not None
get_bucket_size(cache_data, given, bucket_name, now, outcome) ==
    IF given /\ Fresh(cache_data, bucket_name, now)
    THEN [bucket_name |-> bucket_name, given |-> given, now |-> now, outcome |-> outcome,
          cache_before |-> cache_data, queried |-> FALSE,
          returned |-> cache_data[bucket_name].size, cache_after |-> cache_data]
    ELSE [bucket_name |-> bucket_name, given |-> given, now |-> now, outcome |-> outcome,
          cache_before |-> cache_data, queried |-> TRUE,
          returned |-> QueriedSize(outcome),
          cache_after |-> IF given
                          THEN Set(cache_data, bucket_name,
                                   CacheEntry(QueriedSize(outcome), now))
                          ELSE cache_data]

\* commands/s3.py 32-40: no cache file, or the entries of an earlier report
InitCache ==
    /\ cache \in {EmptyMap}
                 \cup {[b \in BucketNames |-> CacheEntry(EarlierSize, t)] : t \in {0, 43200}}
    /\ size_runs = <<>>
    /\ EcrIdle /\ AmiIdle /\ S3Idle /\ HealthIdle /\ ConfigIdle /\ AsgIdle /\ GithubIdle /\ MainIdle /\ PipelineIdle /\ ProcsIdle /\ RefreshIdle /\ VpnIdle

\* one call of get_bucket_size, not earlier than the call before it
GetBucketSize ==
    /\ Len(size_runs) < MaxSizeCalls
    /\ \E bucket_name \in BucketNames, now \in Times, outcome \in MetricOutcomes,
          given \in BOOLEAN :
          /\ \A b \in DOMAIN cache : cache[b].timestamp <= now
          /\ \A k \in 1..Len(size_runs) : size_runs[k].now <= now
          /\ LET run == get_bucket_size(cache, given, bucket_name, now, outcome)
             IN  /\ size_runs' = Append(size_runs, run)
                 /\ cache' = run.cache_after
    /\ UNCHANGED <<ecr_vars, ami_vars, s3_vars, health_vars, config_vars, asg_vars, github_vars, main_vars, pipeline_vars, procs_vars, refresh_vars, vpn_vars>>

NextCache == GetBucketSize

SpecCache == InitCache /\ [][NextCache]_vars

(* C29 *)

SizeRuns == 1..Len(size_runs)

\* C29: a cache entry younger than 24 hours is returned without querying
\* CloudWatch, and a failed or empty metric query never creates or overwrites
\* a cache entry.
C29_OnlyGoodAnswersAreCached ==
    \A k \in SizeRuns :
        LET run == size_runs[k]
        IN  /\ (run.given /\ Fresh(run.cache_before, run.bucket_name, run.now)) =>
                  /\ ~run.queried
                  /\ run.returned = run.cache_before[run.bucket_name].size
            /\ (run.queried /\ run.outcome # "ok") => run.cache_after = run.cache_before

\* what the code does give: the fresh entry is returned without a query and
\* left alone, and a call without a cache changes nothing
C29_FreshEntryReturnedWithoutQuery ==
    \A k \in SizeRuns :
        LET run == size_runs[k]
        IN  /\ (run.given /\ Fresh(run.cache_before, run.bucket_name, run.now)) =>
                  /\ ~run.queried
                  /\ run.returned = run.cache_before[run.bucket_name].size
                  /\ run.cache_after = run.cache_before
            /\ ~run.given => run.cache_after = run.cache_before
            /\ (run.queried /\ run.given) =>
                  run.cache_after[run.bucket_name] = CacheEntry(run.returned, run.now)


----------------------------------------------------------------------------
(* create-vpn (commands/vpn.py 245-365)                                     *)
(*                                                                          *)
(* A CIDR string "a.b.c.d/p" is the record of its five numbers.  A network  *)
(* is counted in blocks of sixteen addresses, the size of a /28, the        *)
(* smallest network a VPC may have: first block and number of blocks.       *)

Cidr(a, b, c, d, prefix) == [a |-> a, b |-> b, c |-> c, d |-> d, prefix |-> prefix]

\* line 302
candidates ==
    <<Cidr(10, 250, 0, 0, 22), Cidr(172, 16, 250, 0, 22), Cidr(192, 168, 250, 0, 22)>>

\* what describe_vpcs may report as CidrBlock: 10.0.0.0/16, 10.250.0.0/16,
\* 10.250.2.0/24, 10.250.3.240/28, 10.250.4.0/24, 172.16.0.0/16,
\* 172.16.248.0/21, 172.31.0.0/16, 192.168.0.0/16, 192.168.250.0/22, and
\* 0.0.0.0/0, which no VPC has but which leaves no candidate
VpcCidrs ==
    {Cidr(10, 0, 0, 0, 16), Cidr(10, 250, 0, 0, 16), Cidr(10, 250, 2, 0, 24),
     Cidr(10, 250, 3, 240, 28), Cidr(10, 250, 4, 0, 24), Cidr(172, 16, 0, 0, 16),
     Cidr(172, 16, 248, 0, 21), Cidr(172, 31, 0, 0, 16), Cidr(192, 168, 0, 0, 16),
     Cidr(192, 168, 250, 0, 22), Cidr(0, 0, 0, 0, 0)}

RECURSIVE Pow2(_)
Pow2(n) == IF n = 0 THEN 1 ELSE 2 * Pow2(n - 1)

\* ipaddress.ip_network(text): the blocks of the network
ip_network(cidr) ==
    [first |-> ((cidr.a * 256 + cidr.b) * 256 + cidr.c) * 16 + (cidr.d \div 16),
     blocks |-> Pow2(28 - cidr.prefix)]

network_address(net) == net.first
broadcast_address(net) == net.first + net.blocks - 1
Contains(net, address) ==
    network_address(net) <= address /\ address <= broadcast_address(net)

\* networks overlap only when they start at the same address
OverlapsSameStart(net, other) == network_address(net) = network_address(other)

\* IPv4Network.overlaps
Overlaps(net, other) ==
    \/ Contains(other, network_address(net))
    \/ Contains(other, broadcast_address(net))
    \/ Contains(net, network_address(other))
    \/ Contains(net, broadcast_address(other))

\* lines 303-305: the candidates next() may take, in order
FreeCandidates(vpc_cidr) ==
    SelectSeq(candidates, LAMBDA c : ~Overlaps(ip_network(c), ip_network(vpc_cidr)))

\* the step at which a run may fail for reasons of its own
VpnFaults ==
    {"none", "describe_vpcs", "describe_security_groups", "describe_subnets",
     "import_certificate", "create_client_vpn_endpoint",
     "associate_client_vpn_target_network", "authorize_client_vpn_ingress"}

\* lines 245-365
create_vpn(vpc_cidr, vpc_given, fault) ==
    LET free == FreeCandidates(vpc_cidr)
        discovered == fault \notin {"describe_vpcs", "describe_security_groups",
                                    "describe_subnets"}
        allocated == discovered /\ free # <<>>
        created == allocated /\ fault \notin {"import_certificate",
                                              "create_client_vpn_endpoint"}
    IN  [vpc_cidr |-> vpc_cidr, vpc_given |-> vpc_given, fault |-> fault,
         allocated |-> allocated,
         client_cidr |-> IF allocated THEN free[1] ELSE Cidr(0, 0, 0, 0, 0),
         created |-> created,
         exit_code |-> IF created /\ fault = "none" THEN 0 ELSE 1]

InitVpn ==
    /\ endpoints = {}
    /\ vpn_runs = <<>>
    /\ EcrIdle /\ AmiIdle /\ S3Idle /\ HealthIdle /\ ConfigIdle /\ AsgIdle /\ GithubIdle /\ MainIdle /\ PipelineIdle /\ ProcsIdle /\ RefreshIdle /\ CacheIdle

\* `awsbot vpn create-vpn DOMAIN [--vpc VPC]`
CreateVpn ==
    /\ vpn_runs = <<>>
    /\ \E vpc_cidr \in VpcCidrs, vpc_given \in BOOLEAN, fault \in VpnFaults :
          LET run == create_vpn(vpc_cidr, vpc_given, fault)
          IN  /\ vpn_runs' = <<run>>
              /\ endpoints' = IF run.created
                              THEN endpoints \cup {[client |-> run.client_cidr,
                                                    vpc |-> run.vpc_cidr]}
                              ELSE endpoints
    /\ UNCHANGED <<ecr_vars, ami_vars, s3_vars, health_vars, config_vars, asg_vars, github_vars, main_vars, pipeline_vars, procs_vars, refresh_vars, cache_vars>>

NextVpn == CreateVpn

SpecVpn == InitVpn /\ [][NextVpn]_vars

(* C30 *)

\* the two networks share a block of addresses
Share(c1, c2) ==
    LET n1 == ip_network(c1)
        n2 == ip_network(c2)
    IN  Max(n1.first, n2.first) <= Min(n1.first + n1.blocks, n2.first + n2.blocks) - 1

\* C30: no endpoint is created with a client CIDR that overlaps the VPC's
\* CIDR block; the client CIDR is the first candidate that does not overlap
\* it; and when every candidate overlaps, no endpoint is created and the
\* command exits with code 1.
C30_ClientCidrClearOfVpc ==
    /\ \A e \in endpoints : ~Share(e.client, e.vpc)
    /\ \A k \in 1..Len(vpn_runs) :
          LET run == vpn_runs[k]
              clear == {i \in 1..Len(candidates) : ~Share(candidates[i], run.vpc_cidr)}
          IN  /\ run.created =>
                    \E i \in clear : /\ run.client_cidr = candidates[i]
                                     /\ \A j \in clear : i <= j
              /\ clear = {} => ~run.created /\ run.exit_code = 1 /\ endpoints = {}

\* a VPC that overlaps the first candidate in part: the second one is taken
C30_Witness ==
    /\ Len(vpn_runs) = 1
    /\ vpn_runs[1].vpc_cidr = Cidr(10, 250, 3, 240, 28)
    /\ vpn_runs[1].exit_code = 0
    /\ endpoints = {[client |-> candidates[2], vpc |-> Cidr(10, 250, 3, 240, 28)]}

====
